---- MODULE Spec2Model ----
(***************************************************************************)
(* Model of the math library of the calculator: the exact rational Number  *)
(* (src/math/src/number.rs), the lexical Scanner (src/math/src/token.rs),  *)
(* the ShuntingYardEngine (src/math/src/engine.rs) and the Calculator      *)
(* registry (src/math/src/lib.rs).                                         *)
(*                                                                         *)
(* A Number is a reduced pair [n, d] with d > 0.  A computation returns an *)
(* outcome: Ok(v), Err(e), Panic (an unwrap of None, todo!(), or a         *)
(* division by zero inside the big-integer library) or Untracked (the code *)
(* goes through f64 arithmetic, or a value leaves the range MaxMag the     *)
(* model tracks; nothing is asserted about such runs).                     *)
(***************************************************************************)
EXTENDS Integers, Sequences, FiniteSets, TLC

\* ------------------------------------------------------------------------
\* Bounds of the model
\* ------------------------------------------------------------------------
\* largest numerator / denominator the model tracks
MaxMag == 20000
\* longest token sequence enumerated exhaustively for the engine
MaxTokens == 3
\* longest text enumerated for the scanner
MaxText == 4
\* most operators in an operator chain given to the engine
MaxChainOps == 2
\* longest run of consecutive signs given to the engine
MaxRun == 3
\* arguments of a call
MaxArgs == 2

\* ------------------------------------------------------------------------
\* Outcomes
\* ------------------------------------------------------------------------
Ok(v) == [kind |-> "Ok", val |-> v]
Err(e) == [kind |-> "Err", err |-> e]
Panic == [kind |-> "Panic"]
Untracked == [kind |-> "Untracked"]
IsOk(r) == r.kind = "Ok"

\* `let v = ...;`: the rest of the block, F, with v bound
Let(v, F(_)) == F(v)
\* `let v = r?;`: an outcome that is not Ok returns at once
Try(r, F(_)) == IF IsOk(r) THEN F(r.val) ELSE r

\* ------------------------------------------------------------------------
\* Number (number.rs)
\* ------------------------------------------------------------------------
Abs(x) == IF x < 0 THEN -x ELSE x
Sign(x) == IF x < 0 THEN -1 ELSE IF x > 0 THEN 1 ELSE 0

RECURSIVE Gcd(_, _)
Gcd(a, b) == IF b = 0 THEN a ELSE Gcd(b, a % b)

\* Ratio::new: reduce and keep the denominator positive
Ratio(n, d) ==
    Let(Gcd(Abs(n), Abs(d)), LAMBDA g :
        IF d < 0 THEN [n |-> -(n \div g), d |-> -(d \div g)]
        ELSE [n |-> n \div g, d |-> d \div g])

FromInt(i) == [n |-> i, d |-> 1]
zero == FromInt(0)
one == FromInt(1)
minus_one == FromInt(-1)
pi == [n |-> 104348, d |-> 33215]
e == [n |-> 2721, d |-> 1001]

InRange(v) == Abs(v.n) <= MaxMag /\ v.d <= MaxMag
Track(v) == IF InRange(v) THEN Ok(v) ELSE Untracked

is_negative(a) == a.n < 0
is_integer(a) == a.d = 1
Less(a, b) == a.n * b.d < b.n * a.d

\* Number::new
new(num, denom) ==
    IF denom = 0 THEN Err("DivisionZero")
    ELSE IF num = denom THEN Ok(one)
    ELSE IF num = 0 THEN Ok(zero)
    ELSE Ok(Ratio(num, denom))

add(a, b) ==
    IF b = zero THEN Ok(a)
    ELSE IF a = zero THEN Ok(b)
    ELSE IF ~(InRange(a) /\ InRange(b)) THEN Untracked
    ELSE Track(Ratio(a.n * b.d + b.n * a.d, a.d * b.d))

sub(a, b) ==
    IF b = zero THEN Ok(a)
    ELSE IF ~(InRange(a) /\ InRange(b)) THEN Untracked
    ELSE Track(Ratio(a.n * b.d - b.n * a.d, a.d * b.d))

mul(a, b) ==
    IF a = zero THEN Ok(zero)
    ELSE IF b = zero THEN Ok(zero)
    ELSE IF a = one THEN Ok(b)
    ELSE IF b = one THEN Ok(a)
    ELSE IF ~(InRange(a) /\ InRange(b)) THEN Untracked
    ELSE Track(Ratio(a.n * b.n, a.d * b.d))

div(a, b) ==
    IF b = zero THEN Err("DivisionZero")
    ELSE IF b = one THEN Ok(a)
    ELSE IF ~(InRange(a) /\ InRange(b)) THEN Untracked
    ELSE Track(Ratio(a.n * b.d, a.d * b.n))

\* Ratio::pow with a positive exponent, by repeated multiplication
RECURSIVE PowLoop(_, _, _)
PowLoop(acc, a, k) ==
    IF k = 0 THEN Ok(acc)
    ELSE LET nx == Ratio(acc.n * a.n, acc.d * a.d)
         IN  IF InRange(nx) THEN PowLoop(nx, a, k - 1) ELSE Untracked

PowNat(a, k) ==
    IF k = 0 THEN Ok(one)
    ELSE IF a = zero \/ a = one THEN Ok(a)
    ELSE IF a = minus_one THEN Ok(IF k % 2 = 0 THEN one ELSE a)
    ELSE PowLoop(one, a, k)

\* Ratio::pow(i32): a negative exponent is the power of the reciprocal
RatioPow(a, k) ==
    IF ~InRange(a) THEN Untracked
    ELSE IF k >= 0 THEN PowNat(a, k)
    ELSE IF a.n = 0 THEN Panic
    ELSE PowNat(Ratio(a.d, a.n), -k)

\* truncated remainder of big integers; the divisor 0 panics
TruncRem(x, y) == Sign(x) * (Abs(x) % Abs(y))

remainder(a, b) ==
    IF b.n = 0 THEN Panic
    ELSE IF ~(InRange(a) /\ InRange(b)) THEN Untracked
    ELSE Track(Ratio(TruncRem(a.n * b.d, b.n * a.d), a.d * b.d))

\* modulo that stops at the first remainder
modulo_truncated(a, b) == remainder(a, b)

modulo(a, b) ==
    Try(remainder(a, b), LAMBDA r1 :
    Try(add(r1, b), LAMBDA r2 :
        remainder(r2, b)))

abs(a) == Ok([n |-> Abs(a.n), d |-> a.d])

\* the loop of factorial: res *= cnt while cnt <= to
RECURSIVE FactLoop(_, _, _)
FactLoop(res, cnt, to) ==
    IF cnt > to THEN Ok(FromInt(res))
    ELSE IF res * cnt > MaxMag THEN Untracked
    ELSE FactLoop(res * cnt, cnt + 1, to)

\* factorial whose loop stops one short: while cnt < to
RECURSIVE FactLoopShort(_, _, _)
FactLoopShort(res, cnt, to) ==
    IF cnt >= to THEN Ok(FromInt(res))
    ELSE IF res * cnt > MaxMag THEN Untracked
    ELSE FactLoopShort(res * cnt, cnt + 1, to)

factorial_short(a) ==
    IF is_negative(a) THEN Err("FactorialNegative")
    ELSE IF a = zero THEN Ok(one)
    ELSE IF a = one THEN Ok(a)
    ELSE IF is_integer(a) THEN
        (IF a.n > MaxMag THEN Untracked ELSE FactLoopShort(2, 3, a.n))
    ELSE Untracked

factorial(a) ==
    IF is_negative(a) THEN Err("FactorialNegative")
    ELSE IF a = zero THEN Ok(one)
    ELSE IF a = one THEN Ok(a)
    ELSE IF is_integer(a) THEN
        (IF a.n > MaxMag THEN Untracked ELSE FactLoop(2, 3, a.n))
    ELSE Untracked

RECURSIVE power(_, _), root(_, _)
power(a, exp) ==
    IF exp = zero THEN Ok(one)
    ELSE IF exp = one THEN Ok(a)
    ELSE IF exp = minus_one THEN div(one, a)
    ELSE IF a = zero THEN Ok(zero)
    ELSE IF ~InRange(exp) THEN Untracked
    ELSE Try(IF exp.d # 1 THEN root(a, FromInt(exp.d)) ELSE Ok(a), LAMBDA res :
             RatioPow(res, exp.n))

\* root that tests the parity of the whole part of nth
root_whole_part(a, nth) ==
    IF nth = zero THEN Err("ZeroNthRoot")
    ELSE IF a = zero THEN Ok(zero)
    ELSE LET to_root == nth.n
             to_pow == nth.d
         IN  IF (Abs(nth.n) \div nth.d) % 2 = 0 /\ Less(a, zero) THEN Err("NegativeRoot")
             ELSE IF to_root # 1 THEN Untracked
             ELSE IF to_pow # 1 THEN power(a, FromInt(to_pow))
             ELSE Ok(a)

\* the Newton iteration on f64 (to_root # 1) is not tracked
root(a, nth) ==
    IF nth = zero THEN Err("ZeroNthRoot")
    ELSE IF a = zero THEN Ok(zero)
    ELSE LET to_root == nth.n
             to_pow == nth.d
         IN  IF to_root % 2 = 0 /\ Less(a, zero) THEN Err("NegativeRoot")
             ELSE IF to_root # 1 THEN Untracked
             ELSE IF to_pow # 1 THEN power(a, FromInt(to_pow))
             ELSE Ok(a)

sqrt(a) == root(a, FromInt(2))

\* log that looks at the base first
log_base_first(a, base) ==
    IF ~Less(zero, base) THEN Err("LogUndefinedBase")
    ELSE IF ~Less(zero, a) THEN Err("LogUndefinedNumber")
    ELSE IF a = one THEN Ok(zero)
    ELSE IF a = base THEN Ok(one)
    ELSE Untracked

\* the f64 logarithm is not tracked
log(a, base) ==
    IF ~Less(zero, a) THEN Err("LogUndefinedNumber")
    ELSE IF ~Less(zero, base) THEN Err("LogUndefinedBase")
    ELSE IF a = one THEN Ok(zero)
    ELSE IF a = base THEN Ok(one)
    ELSE Untracked

arcsin(a) ==
    IF Less(one, a) \/ Less(a, minus_one) THEN Err("OutOfRange") ELSE Untracked

combination(n, k) ==
    IF Less(n, zero) THEN Err("FactorialNegative")
    ELSE IF Less(k, zero) THEN Err("FactorialNegative")
    ELSE IF n = zero \/ n = k THEN Ok(one)
    ELSE IF k = one THEN Ok(n)
    ELSE IF Less(n, k) THEN Ok(zero)
    ELSE Try(factorial(k), LAMBDA k_factorial :
         Try(sub(n, k), LAMBDA nk :
         Try(factorial(nk), LAMBDA nk_factorial :
         Try(mul(k_factorial, nk_factorial), LAMBDA denom :
         Try(factorial(n), LAMBDA nf :
             div(nf, denom))))))

\* ------------------------------------------------------------------------
\* Tokens (token.rs)
\* ------------------------------------------------------------------------
Number(v) == [t |-> "Number", val |-> v]
Operator(o) == [t |-> "Operator", op |-> o]
Bracket(b) == [t |-> "Bracket", b |-> b]
FactorialSign == [t |-> "FactorialSign"]
Comma == [t |-> "Comma"]
Id(s) == [t |-> "Id", id |-> s]
ParenLeft == Bracket("ParenLeft")
ParenRight == Bracket("ParenRight")
VerticalLine == Bracket("VerticalLine")
\* Option::None
None == [t |-> "None"]

\* ------------------------------------------------------------------------
\* Characters
\* ------------------------------------------------------------------------
UpperSeq ==
    << "A", "B", "C", "D", "E", "F", "G", "H", "I", "J", "K", "L", "M",
       "N", "O", "P", "Q", "R", "S", "T", "U", "V", "W", "X", "Y", "Z" >>
LowerSeq ==
    << "a", "b", "c", "d", "e", "f", "g", "h", "i", "j", "k", "l", "m",
       "n", "o", "p", "q", "r", "s", "t", "u", "v", "w", "x", "y", "z" >>
DigitSeq == << "0", "1", "2", "3", "4", "5", "6", "7", "8", "9" >>
Range(f) == {f[i] : i \in DOMAIN f}
IndexOf(f, c) == CHOOSE i \in DOMAIN f : f[i] = c
Uppers == Range(UpperSeq)
Lowers == Range(LowerSeq)
Digits == Range(DigitSeq)
IsLetter(c) == c \in Uppers \cup Lowers
IsDigit(c) == c \in Digits

\* the value of a character as a digit, for the characters that have one
DigitValue ==
    [c \in Digits \cup Lowers \cup Uppers |->
        IF c \in Digits THEN IndexOf(DigitSeq, c) - 1
        ELSE IF c \in Lowers THEN IndexOf(LowerSeq, c) + 9
        ELSE IndexOf(UpperSeq, c) + 9]

\* char::to_digit(radix): -1 stands for None
to_digit(c, radix) ==
    IF c \notin Digits \cup Lowers \cup Uppers THEN -1
    ELSE Let(DigitValue[c], LAMBDA v : IF v < radix THEN v ELSE -1)

\* char::to_lowercase
LowerOf == [c \in Uppers |-> LowerSeq[IndexOf(UpperSeq, c)]]

\* str::to_lowercase
LowerChar(c) == IF c \in Uppers THEN LowerOf[c] ELSE c
to_lowercase(s) == [i \in DOMAIN s |-> LowerChar(s[i])]

\* ------------------------------------------------------------------------
\* Number::to_string (number.rs)
\* ------------------------------------------------------------------------
\* enum Radix and the radix_len of each
Radixes == {"Bin", "Oct", "Dec", "Hex"}
radix_len(radix) ==
    CASE radix = "Bin" -> 2 [] radix = "Oct" -> 8 [] radix = "Dec" -> 10 [] radix = "Hex" -> 16

\* char::from_digit and to_ascii_uppercase: the digit v as a character
UpperDigit(v) == IF v < 10 THEN DigitSeq[v + 1] ELSE UpperSeq[v - 9]

\* format!("{whole:b}"), {whole:o}, {whole} and {whole:X} of a natural number
RECURSIVE format_whole(_, _)
format_whole(whole, r) ==
    IF whole < r THEN <<UpperDigit(whole)>>
    ELSE Append(format_whole(whole \div r, r), UpperDigit(whole % r))

\* the loop that takes the fractional digits: fract is f / d
RECURSIVE fract_loop(_, _, _, _, _, _)
fract_loop(digits, f, d, r, cnt, precision) ==
    IF f # 0 /\ cnt < precision
    THEN fract_loop(Append(digits, (f * r) \div d), (f * r) % d, d, r, cnt + 1, precision)
    ELSE [digits |-> digits, f |-> f]

\* the rounding loop: the last digit is popped and raised by one, and pushed
\* back when it stays below the radix
RECURSIVE round_up(_, _)
round_up(digits, r) ==
    IF digits = <<>> THEN <<>>
    ELSE IF digits[Len(digits)] + 1 < r
         THEN Append(SubSeq(digits, 1, Len(digits) - 1), digits[Len(digits)] + 1)
         ELSE round_up(SubSeq(digits, 1, Len(digits) - 1), r)

\* str::trim_end_matches(c)
RECURSIVE trim_end_matches(_, _)
trim_end_matches(s, c) ==
    IF s # <<>> /\ s[Len(s)] = c THEN trim_end_matches(SubSeq(s, 1, Len(s) - 1), c) ELSE s

\* Number::to_string(radix, precision)
to_string(a, radix, precision) ==
    Let(Abs(a.n) \div a.d, LAMBDA whole :
    Let(Abs(a.n) % a.d, LAMBDA fract :
    Let(radix_len(radix), LAMBDA r :
    Let((IF is_negative(a) THEN <<"-">> ELSE <<>>) \o format_whole(whole, r), LAMBDA res :
        IF fract = 0 THEN res
        ELSE
            Let(fract_loop(<<>>, fract, a.d, r, 0, precision), LAMBDA lp :
            Let(IF (lp.f * r) \div a.d >= r \div 2 THEN round_up(lp.digits, r) ELSE lp.digits,
                LAMBDA digits :
            Let(res \o <<".">> \o [i \in DOMAIN digits |-> UpperDigit(digits[i])], LAMBDA res1 :
            Let(trim_end_matches(trim_end_matches(res1, "0"), "."), LAMBDA res2 :
                IF res2 = <<"-", "0">> THEN <<"0">> ELSE res2))))))))

\* ------------------------------------------------------------------------
\* Scanner (token.rs)
\* ------------------------------------------------------------------------
\* enum State; the fields a variant does not have are left at their defaults
St(tag) == [tag |-> tag, s |-> <<>>, radix |-> 0, num |-> 0, fract |-> 0]
Start == St("Start")
Identifier(s) == [St("Identifier") EXCEPT !.s = s]
NumberSt(radix, num) == [St("Number") EXCEPT !.radix = radix, !.num = num]
FractionSt(radix, num, fract) ==
    [St("Fraction") EXCEPT !.radix = radix, !.num = num, !.fract = fract]

\* number of decimal digits of fract: the loop tmp /= 10 of to_token
RECURSIVE fract_cnt(_)
fract_cnt(tmp) == IF tmp = 0 THEN 0 ELSE 1 + fract_cnt(tmp \div 10)

RECURSIVE Pow10(_)
Pow10(k) == IF k = 0 THEN 1 ELSE 10 * Pow10(k - 1)

\* unwrap_or_default of a Result<Number>
unwrap_or_default(r) == IF IsOk(r) THEN r.val ELSE zero

\* State::to_token
to_token(st) ==
    CASE st.tag = "Add" -> Operator("Plus")
      [] st.tag = "Sub" -> Operator("Minus")
      [] st.tag = "Mul" -> Operator("Multiply")
      [] st.tag = "Div" -> Operator("Divide")
      [] st.tag = "Pow" -> Operator("Power")
      [] st.tag = "Comma" -> Comma
      [] st.tag = "FactorialSign" -> FactorialSign
      [] st.tag = "LeftPar" -> ParenLeft
      [] st.tag = "RightPar" -> ParenRight
      [] st.tag = "VerticalLine" -> VerticalLine
      [] st.tag = "Identifier" -> Id(st.s)
      [] st.tag = "NumberStart" -> Number(zero)
      [] st.tag = "Number" -> Number(FromInt(st.num))
      [] st.tag = "Fraction" ->
            Let(unwrap_or_default(new(st.fract, Pow10(fract_cnt(st.fract)))), LAMBDA fract :
                Number(unwrap_or_default(add(FromInt(st.num), fract))))
      [] OTHER -> None

\* State::next_state: r = "Err", or r = "None" with the state updated in
\* place (self), or r = "Some" with the state to switch to (next)
NsErr == [r |-> "Err"]
NsNone(self) == [r |-> "None", self |-> self]
NsSome(next) == [r |-> "Some", next |-> next]

next_state(st, ch) ==
    CASE st.tag \in {"FactorialSign", "LeftPar", "RightPar", "VerticalLine",
                     "Comma", "Add", "Sub", "Mul", "Div", "Pow"} -> NsSome(Start)
      [] st.tag = "Start" ->
            CASE ch = ")" -> NsSome(St("RightPar"))
              [] ch = "(" -> NsSome(St("LeftPar"))
              [] ch = "|" -> NsSome(St("VerticalLine"))
              [] ch = "+" -> NsSome(St("Add"))
              [] ch = "-" -> NsSome(St("Sub"))
              [] ch = "*" -> NsSome(St("Mul"))
              [] ch = "/" -> NsSome(St("Div"))
              [] ch = "^" -> NsSome(St("Pow"))
              [] ch = "!" -> NsSome(St("FactorialSign"))
              [] ch = "," -> NsSome(St("Comma"))
              [] ch = "0" -> NsSome(St("NumberStart"))
              [] ch = " " -> NsNone(st)
              [] IsDigit(ch) /\ ch # "0" -> NsSome(NumberSt(10, to_digit(ch, 10)))
              [] ch = "." -> NsSome(St("FractionStart"))
              [] IsLetter(ch) -> NsSome(Identifier(<<ch>>))
              [] OTHER -> NsErr
      [] st.tag = "Identifier" ->
            IF ~(IsLetter(ch) \/ IsDigit(ch)) THEN NsSome(Start)
            ELSE NsNone([st EXCEPT !.s = Append(@, ch)])
      [] st.tag = "NumberStart" ->
            CASE ch = "." -> NsSome(FractionSt(10, 0, 0))
              [] ch = "b" -> NsSome(NumberSt(2, 0))
              [] ch = "o" -> NsSome(NumberSt(8, 0))
              [] ch = "x" -> NsSome(NumberSt(16, 0))
              [] IsDigit(ch) -> NsSome(NumberSt(10, to_digit(ch, 10)))
              [] OTHER -> NsSome(Start)
      [] st.tag = "Number" ->
            IF ch = "." THEN NsSome(FractionSt(st.radix, st.num, 0))
            ELSE IF to_digit(ch, st.radix) = -1 THEN NsSome(Start)
            ELSE NsNone([st EXCEPT !.num = @ * st.radix + to_digit(ch, st.radix)])
      [] st.tag = "FractionStart" ->
            IF to_digit(ch, 10) = -1 THEN NsErr
            ELSE NsSome(FractionSt(10, 0, to_digit(ch, 10)))
      [] st.tag = "Fraction" ->
            IF to_digit(ch, st.radix) = -1 THEN NsSome(Start)
            ELSE NsNone([st EXCEPT !.fract = @ * st.radix + to_digit(ch, st.radix)])

\* Scanner::new; buf is <<>> (None) or <<ch>>
ScannerNew(s) == [iter |-> s, state |-> Start, cnt |-> 0, buf |-> <<>>]

\* results of step and next_token: the scanner afterwards and what came out
ErrAt(err, pos) == [kind |-> "Err", err |-> err, pos |-> pos]
StepOut(sc, out) == [sc |-> sc, out |-> out]
Inprogress == [kind |-> "Inprogress"]
End == [kind |-> "End"]
TokenOut(tok, cnt) ==
    IF tok = None THEN ErrAt("UnsupportedToken", cnt) ELSE [kind |-> "Token", tok |-> tok]

\* Scanner::step
step(sc0) ==
    Let([sc0 EXCEPT !.cnt = @ + 1], LAMBDA sc :
        IF sc.buf = <<>> /\ sc.iter = <<>> THEN
            Let([sc EXCEPT !.state = Start], LAMBDA sc1 :
                IF sc.state = Start THEN StepOut(sc1, End)
                ELSE StepOut(sc1, TokenOut(to_token(sc.state), sc.cnt)))
        ELSE
            Let(IF sc.buf # <<>> THEN sc.buf[1] ELSE Head(sc.iter), LAMBDA ch :
            Let(IF sc.buf # <<>> THEN [sc EXCEPT !.buf = <<>>]
                ELSE [sc EXCEPT !.iter = Tail(@)], LAMBDA sc1 :
            Let(next_state(sc1.state, ch), LAMBDA ns :
                CASE ns.r = "Err" -> StepOut(sc1, ErrAt("UnsupportedToken", sc.cnt))
                  [] ns.r = "None" -> StepOut([sc1 EXCEPT !.state = ns.self], Inprogress)
                  [] ns.r = "Some" ->
                        Let([sc1 EXCEPT !.state = ns.next], LAMBDA sc2 :
                            IF ns.next # Start \/ sc1.state = Start
                            THEN StepOut(sc2, Inprogress)
                            ELSE StepOut([sc2 EXCEPT !.buf = <<ch>>],
                                         TokenOut(to_token(sc1.state), sc.cnt)))))))

\* the step at which next_token gives up
StepLimit == 10

\* Scanner::next_token: out is Token(tok), End or an error
RECURSIVE next_token_loop(_, _)
next_token_loop(sc, cnt0) ==
    IF cnt0 + 1 = StepLimit THEN StepOut(sc, [kind |-> "Err", err |-> "Message"])
    ELSE Let(step(sc), LAMBDA r :
             IF r.out.kind = "Inprogress" THEN next_token_loop(r.sc, cnt0 + 1)
             ELSE r)

next_token(sc) == next_token_loop(sc, 0)

\* the loop of Calculator::evaluate: the tokens pushed until None or the
\* first error, and how the loop ended (Ok, or the error)
RECURSIVE scan_all(_, _)
scan_all(sc, tokens) ==
    Let(next_token(sc), LAMBDA r :
        CASE r.out.kind = "Token" -> scan_all(r.sc, Append(tokens, r.out.tok))
          [] r.out.kind = "End" -> [out |-> Ok(tokens), tokens |-> tokens]
          [] OTHER -> [out |-> r.out, tokens |-> tokens])

\* ------------------------------------------------------------------------
\* Variable (lib.rs)
\* ------------------------------------------------------------------------
Constant(v) == [tag |-> "Constant", val |-> v]
Function(argc, ptr) == [tag |-> "Function", argc |-> argc, ptr |-> ptr]

\* Variable::argc
argc_of(var) == IF var.tag = "Constant" THEN 0 ELSE var.argc

\* Variable::calc with the closures of add_builtin_function; rnd is the value
\* Number::random() draws; the sine series and the f64 functions are not tracked
calc(var, nums, rnd) ==
    IF var.tag = "Constant" THEN Ok(var.val)
    ELSE CASE var.ptr = "root" -> root(nums[2], nums[1])
           [] var.ptr = "sqrt" -> sqrt(nums[1])
           [] var.ptr = "ln" -> log(nums[1], e)
           [] var.ptr = "log2" -> log(nums[1], FromInt(2))
           [] var.ptr = "log10" -> log(nums[1], FromInt(10))
           [] var.ptr = "log" -> log(nums[2], nums[1])
           [] var.ptr \in {"arcsin", "arccos"} -> arcsin(nums[1])
           [] var.ptr = "pow" -> power(nums[1], nums[2])
           [] var.ptr = "abs" -> abs(nums[1])
           [] var.ptr = "comb" -> combination(nums[1], nums[2])
           [] var.ptr = "random" -> Ok(rnd)
           [] OTHER -> Untracked

\* ------------------------------------------------------------------------
\* ShuntingYardEngine (engine.rs)
\* ------------------------------------------------------------------------
Peek(tokens, i) == IF i <= Len(tokens) THEN tokens[i] ELSE None
Last(s) == s[Len(s)]
Front(s) == SubSeq(s, 1, Len(s) - 1)

\* validate_tokens with a comma that leaves the count of its group as it is
RECURSIVE validate_from_uncounted(_, _, _, _)
validate_from_uncounted(tokens, variables, i, arg_counts) ==
    IF i > Len(tokens) THEN Ok(<<>>)
    ELSE
      LET token == tokens[i]
          next == Peek(tokens, i + 1)
      IN  CASE token.t = "Operator" /\ next = None -> Err("MissingOperand")
            [] token.t = "Operator" /\ next.t = "Operator"
               /\ next.op \in {"Divide", "Multiply", "Power", "Modulo"} -> Err("MissingOperand")
            [] token.t = "Number" /\ next.t = "Number" -> Err("MissingOperator")
            [] token.t = "Id" ->
                  IF next # ParenLeft THEN Err("InvalidToken")
                  ELSE IF token.id \notin DOMAIN variables THEN Err("InvalidToken")
                  ELSE LET argc == argc_of(variables[token.id])
                           next2 == Peek(tokens, i + 2)
                       IN  IF argc = 0 THEN
                               IF next2 # ParenRight THEN Err("InvalidArguments")
                               ELSE validate_from_uncounted(tokens, variables, i + 3, arg_counts)
                           ELSE validate_from_uncounted(tokens, variables, i + 2, Append(arg_counts, argc))
            [] token = ParenLeft ->
                  validate_from_uncounted(tokens, variables, i + 1, Append(arg_counts, 1))
            [] token = ParenRight ->
                  IF arg_counts = <<>> THEN Err("InvalidToken")
                  ELSE IF Last(arg_counts) # 1 THEN Err("InvalidArguments")
                  ELSE validate_from_uncounted(tokens, variables, i + 1, Front(arg_counts))
            [] token = Comma ->
                  IF arg_counts = <<>> THEN Err("InvalidArguments")
                  ELSE IF Last(arg_counts) = 0 THEN Err("InvalidArguments")
                  ELSE validate_from_uncounted(tokens, variables, i + 1, arg_counts)
            [] OTHER -> validate_from_uncounted(tokens, variables, i + 1, arg_counts)

\* validate_tokens that looks for a missing operand only at the last token
RECURSIVE validate_from_last_only(_, _, _, _)
validate_from_last_only(tokens, variables, i, arg_counts) ==
    IF i > Len(tokens) THEN Ok(<<>>)
    ELSE
      LET token == tokens[i]
          next == Peek(tokens, i + 1)
      IN  CASE token.t = "Operator" /\ next = None -> Err("MissingOperand")
            [] token.t = "Number" /\ next.t = "Number" -> Err("MissingOperator")
            [] token.t = "Id" ->
                  IF next # ParenLeft THEN Err("InvalidToken")
                  ELSE IF token.id \notin DOMAIN variables THEN Err("InvalidToken")
                  ELSE LET argc == argc_of(variables[token.id])
                           next2 == Peek(tokens, i + 2)
                       IN  IF argc = 0 THEN
                               IF next2 # ParenRight THEN Err("InvalidArguments")
                               ELSE validate_from_last_only(tokens, variables, i + 3, arg_counts)
                           ELSE validate_from_last_only(tokens, variables, i + 2, Append(arg_counts, argc))
            [] token = ParenLeft ->
                  validate_from_last_only(tokens, variables, i + 1, Append(arg_counts, 1))
            [] token = ParenRight ->
                  IF arg_counts = <<>> THEN Err("InvalidToken")
                  ELSE IF Last(arg_counts) # 1 THEN Err("InvalidArguments")
                  ELSE validate_from_last_only(tokens, variables, i + 1, Front(arg_counts))
            [] token = Comma ->
                  IF arg_counts = <<>> THEN Err("InvalidArguments")
                  ELSE IF Last(arg_counts) = 0 THEN Err("InvalidArguments")
                  ELSE validate_from_last_only(tokens, variables, i + 1,
                                     [arg_counts EXCEPT ![Len(arg_counts)] = @ - 1])
            [] OTHER -> validate_from_last_only(tokens, variables, i + 1, arg_counts)

\* validate_tokens: i is the position of the iterator, arg_counts the stack
RECURSIVE validate_from(_, _, _, _)
validate_from(tokens, variables, i, arg_counts) ==
    IF i > Len(tokens) THEN Ok(<<>>)
    ELSE
      LET token == tokens[i]
          next == Peek(tokens, i + 1)
      IN  CASE token.t = "Operator" /\ next = None -> Err("MissingOperand")
            [] token.t = "Operator" /\ next.t = "Operator"
               /\ next.op \in {"Divide", "Multiply", "Power", "Modulo"} -> Err("MissingOperand")
            [] token.t = "Number" /\ next.t = "Number" -> Err("MissingOperator")
            [] token.t = "Id" ->
                  IF next # ParenLeft THEN Err("InvalidToken")
                  ELSE IF token.id \notin DOMAIN variables THEN Err("InvalidToken")
                  ELSE LET argc == argc_of(variables[token.id])
                           next2 == Peek(tokens, i + 2)
                       IN  IF argc = 0 THEN
                               IF next2 # ParenRight THEN Err("InvalidArguments")
                               ELSE validate_from(tokens, variables, i + 3, arg_counts)
                           ELSE validate_from(tokens, variables, i + 2, Append(arg_counts, argc))
            [] token = ParenLeft ->
                  validate_from(tokens, variables, i + 1, Append(arg_counts, 1))
            [] token = ParenRight ->
                  IF arg_counts = <<>> THEN Err("InvalidToken")
                  ELSE IF Last(arg_counts) # 1 THEN Err("InvalidArguments")
                  ELSE validate_from(tokens, variables, i + 1, Front(arg_counts))
            [] token = Comma ->
                  IF arg_counts = <<>> THEN Err("InvalidArguments")
                  ELSE IF Last(arg_counts) = 0 THEN Err("InvalidArguments")
                  ELSE validate_from(tokens, variables, i + 1,
                                     [arg_counts EXCEPT ![Len(arg_counts)] = @ - 1])
            [] OTHER -> validate_from(tokens, variables, i + 1, arg_counts)

validate_tokens(tokens, variables) == validate_from(tokens, variables, 1, <<>>)

\* enum ShuntingYardOperator
SyOperator(op) == [k |-> "Operator", op |-> op]
SyOpenParen == [k |-> "OpenParen"]
SyComma == [k |-> "Comma"]
SyVariable(var) == [k |-> "Variable", var |-> var]

\* the two stacks of the engine
Engine(operators, operands) == [operators |-> operators, operands |-> operands]
EngOk(eng) == [kind |-> "Ok", eng |-> eng]

\* a precedence table that ranks every operator alike
operator_precedence_flat(op) ==
    CASE op \in {"Plus", "Minus", "Multiply", "Divide", "Power", "Modulo"} -> 0

operator_precedence(op) ==
    CASE op \in {"Plus", "Minus"} -> 0
      [] op \in {"Multiply", "Divide"} -> 1
      [] op \in {"Power", "Modulo"} -> 2

evaluate_expr(lhs, rhs, op) ==
    CASE op = "Plus" -> add(lhs, rhs)
      [] op = "Minus" -> sub(lhs, rhs)
      [] op = "Multiply" -> mul(lhs, rhs)
      [] op = "Divide" -> div(lhs, rhs)
      [] op = "Power" -> power(lhs, rhs)
      [] op = "Modulo" -> modulo(lhs, rhs)

store_operand(eng, val) == [eng EXCEPT !.operands = Append(@, val)]

\* operator_handle: apply the operators on top that do not bind weaker, push op
RECURSIVE operator_handle(_, _)
operator_handle(eng, op) ==
    IF eng.operators # <<>> /\ Last(eng.operators).k = "Operator"
       /\ ~(operator_precedence(op) > operator_precedence(Last(eng.operators).op))
    THEN
        Let(Last(eng.operators).op, LAMBDA last_op :
        Let(Len(eng.operands), LAMBDA n :
            IF n = 0 THEN Panic
            ELSE IF n = 1 /\ last_op \notin {"Plus", "Minus"} THEN Err("MissingOperand")
            ELSE Try(evaluate_expr(IF n = 1 THEN zero ELSE eng.operands[n - 1],
                                   eng.operands[n], last_op), LAMBDA val :
                     operator_handle(
                        Engine(Front(eng.operators),
                               Append(SubSeq(eng.operands, 1, n - 2), val)), op))))
    ELSE EngOk([eng EXCEPT !.operators = Append(@, SyOperator(op))])

\* finalize: pop operators down to (and including) the first marker that is
\* not an operator; res is None or the value computed
FinOk(eng, res) == [kind |-> "Ok", eng |-> eng, res |-> res]

RECURSIVE finalize_loop(_, _)
finalize_loop(eng, res) ==
    IF eng.operators = <<>> THEN FinOk(eng, res)
    ELSE IF Last(eng.operators).k # "Operator"
    THEN FinOk([eng EXCEPT !.operators = Front(@)], res)
    ELSE
      Let(Last(eng.operators).op, LAMBDA op :
      Let(IF res # None THEN eng.operands ELSE Front(eng.operands), LAMBDA ops1 :
          IF res = None /\ eng.operands = <<>> THEN Panic
          ELSE IF ops1 = <<>> /\ op \notin {"Plus", "Minus"} THEN Err("MissingOperand")
          ELSE Try(evaluate_expr(IF ops1 = <<>> THEN zero ELSE Last(ops1),
                                 IF res # None THEN res ELSE Last(eng.operands), op),
                   LAMBDA val :
                     finalize_loop(
                        Engine(Front(eng.operators),
                               IF ops1 = <<>> THEN <<>> ELSE Front(ops1)), val))))

finalize(eng) == finalize_loop(eng, None)

\* closing_bracket_handle
closing_bracket_handle(eng0, rnd) ==
    Let(finalize(eng0), LAMBDA f :
        IF ~IsOk(f) THEN f
        ELSE
          Let(IF f.res # None THEN store_operand(f.eng, f.res) ELSE f.eng, LAMBDA eng :
              IF eng.operators # <<>> /\ Last(eng.operators).k = "Variable" THEN
                  Let(Last(eng.operators).var, LAMBDA var :
                  Let(Len(eng.operands) - argc_of(var), LAMBDA rest :
                      IF rest < 0 THEN Panic
                      ELSE Try(calc(var, SubSeq(eng.operands, rest + 1, Len(eng.operands)), rnd),
                               LAMBDA val :
                                 EngOk(Engine(Front(eng.operators),
                                              Append(SubSeq(eng.operands, 1, rest), val))))))
              ELSE EngOk(eng)))

\* a combination in which two `-` stay a `-`
combine_signs_sticky(op, next_op) ==
    CASE op = "Plus" /\ next_op = "Minus" -> "Minus"
      [] op = "Minus" /\ next_op = "Plus" -> "Minus"
      [] op = "Minus" /\ next_op = "Minus" -> "Minus"
      [] op = "Plus" /\ next_op = "Plus" -> "Plus"
      [] OTHER -> "break"

\* evaluate, "Combine all the `+` and `-` signs together": the folded sign,
\* or "break" when the pair is not two signs
combine_signs(op, next_op) ==
    CASE op = "Plus" /\ next_op = "Minus" -> "Minus"
      [] op = "Minus" /\ next_op = "Plus" -> "Minus"
      [] op = "Minus" /\ next_op = "Minus" -> "Plus"
      [] op = "Plus" /\ next_op = "Plus" -> "Plus"
      [] OTHER -> "break"

\* the while-let loop over iter.peek(): the folded operator and the position
\* of the iterator after the signs it consumed
RECURSIVE combine_loop(_, _, _)
combine_loop(tokens, op, j) ==
    Let(IF Peek(tokens, j).t = "Operator" THEN combine_signs(op, Peek(tokens, j).op)
        ELSE "break", LAMBDA combined :
        IF combined # "break" THEN combine_loop(tokens, combined, j + 1)
        ELSE [op |-> op, j |-> j])

\* evaluate, "Handle the `+` `-` sign of a number": the matches! on
\* (last_token, op, iter.peek())
is_number_sign(last_token, op, next) ==
    /\ \/ last_token = None
       \/ last_token.t = "Comma"
       \/ last_token.t = "Bracket" /\ last_token.b = "ParenLeft"
       \/ last_token.t = "Operator"
          /\ last_token.op \in {"Multiply", "Divide", "Power", "Modulo"}
    /\ op \in {"Plus", "Minus"}
    /\ next.t = "Number"

\* a hidden multiply sign that a closing bracket does not start
hidden_multiply_no_bracket(token, nxt) ==
    /\ nxt # None
    /\ token # nxt
    /\ token.t \in {"Number", "FactorialSign"}
    /\ \/ nxt.t \in {"Number", "Id"}
       \/ nxt.t = "Bracket" /\ nxt.b = "ParenLeft"

\* evaluate, "Handle the hidden multiply sign in algebraic notation"
hidden_multiply(token, nxt) ==
    /\ nxt # None
    /\ token # nxt
    /\ \/ token.t \in {"Number", "FactorialSign"}
       \/ token.t = "Bracket" /\ token.b = "ParenRight"
    /\ \/ nxt.t \in {"Number", "Id"}
       \/ nxt.t = "Bracket" /\ nxt.b = "ParenLeft"

\* one arm of the match on the token: the engine afterwards, the position of
\* the iterator, negate_operand, and whether the arm ended with `continue`
ArmOk(eng, j, negate_operand, continued) ==
    [kind |-> "Ok", eng |-> eng, j |-> j, negate_operand |-> negate_operand,
     continued |-> continued]

token_arm(tokens, variables, rnd, i, eng, last_token, negate_operand) ==
    Let(tokens[i], LAMBDA token :
        CASE token.t = "Number" ->
              Try(IF negate_operand THEN mul(token.val, minus_one) ELSE Ok(token.val),
                  LAMBDA num : ArmOk(store_operand(eng, num), i + 1, FALSE, FALSE))
          [] token.t = "Operator" ->
              Let(combine_loop(tokens, token.op, i + 1), LAMBDA c :
                  IF is_number_sign(last_token, c.op, Peek(tokens, c.j))
                  THEN ArmOk(eng, c.j, c.op = "Minus", TRUE)
                  ELSE Let(operator_handle(eng, c.op), LAMBDA h :
                           IF ~IsOk(h) THEN h
                           ELSE ArmOk(h.eng, c.j, negate_operand, FALSE)))
          [] token.t = "FactorialSign" ->
              IF eng.operands = <<>> THEN Panic
              ELSE Try(factorial(Last(eng.operands)), LAMBDA num :
                       ArmOk([eng EXCEPT !.operands = Append(Front(@), num)],
                             i + 1, negate_operand, FALSE))
          [] token.t = "Bracket" /\ token.b = "ParenLeft" ->
              ArmOk([eng EXCEPT !.operators = Append(@, SyOpenParen)],
                    i + 1, negate_operand, FALSE)
          [] token.t = "Bracket" /\ token.b = "ParenRight" ->
              Let(closing_bracket_handle(eng, rnd), LAMBDA h :
                  IF ~IsOk(h) THEN h ELSE ArmOk(h.eng, i + 1, negate_operand, FALSE))
          [] token.t = "Bracket" /\ token.b = "VerticalLine" -> Panic
          [] token.t = "Id" ->
              IF token.id \notin DOMAIN variables THEN Panic
              ELSE ArmOk([eng EXCEPT !.operators = Append(@, SyVariable(variables[token.id]))],
                         i + 1, negate_operand, FALSE)
          [] token.t = "Comma" ->
              Let(finalize(eng), LAMBDA f :
                  IF ~IsOk(f) THEN f
                  ELSE ArmOk([(IF f.res # None THEN store_operand(f.eng, f.res) ELSE f.eng)
                                EXCEPT !.operators = Append(@, SyComma)],
                             i + 1, negate_operand, FALSE)))

\* the while-let loop of evaluate and the final finalize
RECURSIVE evaluate_loop(_, _, _, _, _, _, _)
evaluate_loop(tokens, variables, rnd, i, eng, last_token, negate_operand) ==
    IF i > Len(tokens) THEN
        Let(finalize(eng), LAMBDA f :
            IF ~IsOk(f) THEN f
            ELSE IF f.res # None THEN Ok(f.res)
            ELSE IF f.eng.operands # <<>> THEN Ok(Last(f.eng.operands))
            ELSE Err("MissingOperand"))
    ELSE
        Let(token_arm(tokens, variables, rnd, i, eng, last_token, negate_operand), LAMBDA a :
            IF ~IsOk(a) THEN a
            ELSE IF a.continued THEN
                evaluate_loop(tokens, variables, rnd, a.j, a.eng, last_token, a.negate_operand)
            ELSE
                Let(IF hidden_multiply(tokens[i], Peek(tokens, a.j))
                    THEN operator_handle(a.eng, "Multiply") ELSE EngOk(a.eng), LAMBDA h :
                    IF ~IsOk(h) THEN h
                    ELSE evaluate_loop(tokens, variables, rnd, a.j, h.eng, tokens[i],
                                       a.negate_operand)))

\* ShuntingYardEngine::evaluate
evaluate(tokens, variables, rnd) ==
    evaluate_loop(tokens, variables, rnd, 1, Engine(<<>>, <<>>), None, FALSE)

\* Engine::execute
execute(tokens, variables, rnd) ==
    Let(validate_tokens(tokens, variables), LAMBDA v :
        IF ~IsOk(v) THEN v ELSE evaluate(tokens, variables, rnd))

\* ------------------------------------------------------------------------
\* Calculator (lib.rs)
\* ------------------------------------------------------------------------
\* add_builtin_function: the name, the arity and the closure (named after the
\* function) of every add_function call, in its order
BuiltinFunctions ==
    << << <<"r","o","o","t">>, 2, "root" >>,
       << <<"s","q","r","t">>, 1, "sqrt" >>,
       << <<"l","n">>, 1, "ln" >>,
       << <<"l","o","g","2">>, 1, "log2" >>,
       << <<"l","o","g","1","0">>, 1, "log10" >>,
       << <<"l","o","g">>, 2, "log" >>,
       << <<"s","i","n">>, 1, "sin" >>,
       << <<"c","o","s">>, 1, "cos" >>,
       << <<"t","g">>, 1, "tg" >>,
       << <<"c","o","t","g">>, 1, "cotg" >>,
       << <<"a","r","c","s","i","n">>, 1, "arcsin" >>,
       << <<"a","r","c","c","o","s">>, 1, "arccos" >>,
       << <<"a","r","c","t","g">>, 1, "arctg" >>,
       << <<"a","r","c","c","o","t","g">>, 1, "arccotg" >>,
       << <<"p","o","w">>, 2, "pow" >>,
       << <<"a","b","s">>, 1, "abs" >>,
       << <<"c","o","m","b">>, 2, "comb" >>,
       << <<"r","a","n","d","o","m">>, 0, "random" >> >>

\* HashMap::insert
Insert(variables, name, var) ==
    [k \in DOMAIN variables \cup {name} |-> IF k = name THEN var ELSE variables[k]]
\* HashMap::remove
Remove(variables, name) == [k \in DOMAIN variables \ {name} |-> variables[k]]

\* the add_function call that registers the key k
BuiltinNamed(k) == CHOOSE f \in Range(BuiltinFunctions) : to_lowercase(f[1]) = k

\* Calculator::add_builtin_function: the registry with the functions
\* inserted, and the keywords pushed
add_builtin_function(vs) ==
    [variables |->
        [k \in DOMAIN vs \cup {to_lowercase(f[1]) : f \in Range(BuiltinFunctions)} |->
            IF \E f \in Range(BuiltinFunctions) : to_lowercase(f[1]) = k
            THEN Function(BuiltinNamed(k)[2], BuiltinNamed(k)[3])
            ELSE vs[k]],
     keywords |-> {f[1] : f \in Range(BuiltinFunctions)}]

\* the result of a call on the Calculator: the registry afterwards and the
\* value returned
CallOut(variables, ret) == [variables |-> variables, ret |-> ret]
Bool(b) == [kind |-> "Bool", val |-> b]
Some(v) == [kind |-> "Some", val |-> v]
NoneVal == [kind |-> "None"]

\* add_constant comparing the name as spelled by the caller
add_constant_with_spelled(variables, keywords, name0, num) ==
    IF \E v \in keywords : v = name0 THEN CallOut(variables, Bool(FALSE))
    ELSE CallOut(Insert(variables, to_lowercase(name0), Constant(num)), Bool(TRUE))

\* Calculator::add_constant against the keyword list `keywords`
add_constant_with(variables, keywords, name0, num) ==
    Let(to_lowercase(name0), LAMBDA name :
        IF \E v \in keywords : v = name THEN CallOut(variables, Bool(FALSE))
        ELSE CallOut(Insert(variables, name, Constant(num)), Bool(TRUE)))

\* Calculator::new: e and pi are added while builtin_keywords is still empty
NewVariables ==
    LET v1 == add_constant_with(<<>>, {}, <<"e">>, e).variables
        v2 == add_constant_with(v1, {}, <<"p","i">>, pi).variables
    IN  add_builtin_function(v2).variables

builtin_keywords ==
    add_builtin_function(<<>>).keywords \cup {<<"m","o","d">>, <<"e">>, <<"p","i">>}

add_constant(variables, name, num) ==
    add_constant_with(variables, builtin_keywords, name, num)

\* remove_constant that does not put a Function back
remove_constant_any(variables, name0) ==
    Let(to_lowercase(name0), LAMBDA name :
        IF name \notin DOMAIN variables THEN CallOut(variables, NoneVal)
        ELSE IF variables[name].tag = "Constant"
        THEN CallOut(Remove(variables, name), Some(variables[name].val))
        ELSE CallOut(Remove(variables, name), NoneVal))

\* Calculator::remove_constant
remove_constant(variables, name0) ==
    Let(to_lowercase(name0), LAMBDA name :
        IF name \notin DOMAIN variables THEN CallOut(variables, NoneVal)
        ELSE IF variables[name].tag = "Constant"
        THEN CallOut(Remove(variables, name), Some(variables[name].val))
        ELSE CallOut(Insert(Remove(variables, name), name, variables[name]), NoneVal))

\* Calculator::get_constant
get_constant(variables, name0) ==
    Let(to_lowercase(name0), LAMBDA name :
        IF name \notin DOMAIN variables THEN NoneVal
        ELSE IF variables[name].tag = "Constant" THEN Some(variables[name].val)
        ELSE NoneVal)

ANS == <<"a","n","s">>

\* Calculator::evaluate: the registry and self.tokens afterwards, and the
\* value returned
EvalOut(variables, tokens, ret) == [variables |-> variables, tokens |-> tokens, ret |-> ret]

\* evaluate that returns the result without storing it
calculator_evaluate_no_store(variables, s, rnd) ==
    Let(scan_all(ScannerNew(s), <<>>), LAMBDA scanned :
        IF ~IsOk(scanned.out) THEN EvalOut(variables, scanned.tokens, scanned.out)
        ELSE EvalOut(variables, scanned.tokens, execute(scanned.tokens, variables, rnd)))

calculator_evaluate(variables, s, rnd) ==
    Let(scan_all(ScannerNew(s), <<>>), LAMBDA scanned :
        IF ~IsOk(scanned.out) THEN EvalOut(variables, scanned.tokens, scanned.out)
        ELSE Let(execute(scanned.tokens, variables, rnd), LAMBDA ans :
                 IF ~IsOk(ans) THEN EvalOut(variables, scanned.tokens, ans)
                 ELSE EvalOut(add_constant(variables, ANS, ans.val).variables,
                              scanned.tokens, ans)))

\* ------------------------------------------------------------------------
\* PressedButton and ExprItem (calc/src/lib.rs, calc/src/expr_manager.rs)
\* ------------------------------------------------------------------------
\* enum Opt
Opts ==
    { "Add", "Sub", "Mul", "Div", "Sin", "Cos", "Tg", "Cotg", "Arcsin", "Arccos",
      "Arctg", "Arccotg", "Log", "LogN", "Ln", "Sqrt", "Root", "Pow", "Pow2", "Root3",
      "Abs", "Comb", "Fact", "Mod" }

\* enum PressedButton (`type Btn = PressedButton`)
BtnNum(n) == [k |-> "Num", n |-> n]
BtnBinOpt(opt) == [k |-> "BinOpt", opt |-> opt]
BtnUnaryOpt(opt) == [k |-> "UnaryOpt", opt |-> opt]
BtnConst(name) == [k |-> "Const", name |-> name]
BtnClear == [k |-> "Clear"]
BtnDelete == [k |-> "Delete"]
BtnMoveRight == [k |-> "MoveRight"]
BtnMoveLeft == [k |-> "MoveLeft"]
BtnEvaluate == [k |-> "Evaluate"]
BtnBracketLeft == [k |-> "BracketLeft"]
BtnBracketRight == [k |-> "BracketRight"]
BtnComma == [k |-> "Comma"]
BtnAns == [k |-> "Ans"]
BtnRandom == [k |-> "Random"]

\* a character outside ASCII is written as its code point
CURSOR_CHAR == "U+02F0"

\* ExprItem::new
ExprItem(disp, eval, priority, left_asoc, skip_conv) ==
    [disp |-> disp, eval |-> eval, priority |-> priority, left_asoc |-> left_asoc,
     skip_conv |-> skip_conv]

\* impl ToExpr for Opt
opt_to_expr(opt) ==
    CASE opt = "Add" -> ExprItem(<<"+">>, <<"+">>, 0, TRUE, TRUE)
      [] opt = "Sub" -> ExprItem(<<"-">>, <<"-">>, 0, TRUE, TRUE)
      [] opt = "Mul" -> ExprItem(<<"U+22C5">>, <<"*">>, 1, TRUE, TRUE)
      [] opt = "Div" -> ExprItem(<<"U+00F7">>, <<"/">>, 1, TRUE, TRUE)
      [] opt = "Sin" -> ExprItem(<<"s","i","n"," ">>, <<"s","i","n">>, 3, FALSE, FALSE)
      [] opt = "Cos" -> ExprItem(<<"c","o","s"," ">>, <<"c","o","s">>, 3, FALSE, FALSE)
      [] opt = "Tg" -> ExprItem(<<"t","g"," ">>, <<"t","g">>, 3, FALSE, FALSE)
      [] opt = "Cotg" -> ExprItem(<<"c","o","t","g"," ">>, <<"c","o","t","g">>, 3, FALSE, FALSE)
      [] opt = "Arcsin" ->
            ExprItem(<<"s","i","n","U+207B","U+00B9"," ">>, <<"a","r","c","s","i","n">>,
                     3, FALSE, FALSE)
      [] opt = "Arccos" ->
            ExprItem(<<"c","o","s","U+207B","U+00B9"," ">>, <<"a","r","c","c","o","s">>,
                     3, FALSE, FALSE)
      [] opt = "Arctg" ->
            ExprItem(<<"t","g","U+207B","U+00B9"," ">>, <<"a","r","c","t","g">>,
                     3, FALSE, FALSE)
      [] opt = "Arccotg" ->
            ExprItem(<<"c","o","t","g","U+207B","U+00B9"," ">>,
                     <<"a","r","c","c","o","t","g">>, 3, FALSE, FALSE)
      [] opt = "Log" -> ExprItem(<<"l","o","g"," ">>, <<"l","o","g","1","0">>, 3, FALSE, FALSE)
      [] opt = "LogN" -> ExprItem(<<"l","o","g","U+2099"," ">>, <<"l","o","g">>, 2, TRUE, FALSE)
      [] opt = "Ln" -> ExprItem(<<"l","n"," ">>, <<"l","n">>, 3, FALSE, FALSE)
      [] opt = "Sqrt" -> ExprItem(<<"U+221A">>, <<"s","q","r","t">>, 3, FALSE, FALSE)
      [] opt = "Root" -> ExprItem(<<"U+207F","U+221A">>, <<"r","o","o","t">>, 2, TRUE, FALSE)
      [] opt = "Root3" -> ExprItem(<<"U+00B3","U+221A">>, <<"r","o","o","t">>, 3, FALSE, FALSE)
      [] opt = "Pow" -> ExprItem(<<"^">>, <<"^">>, 3, TRUE, TRUE)
      [] opt = "Pow2" -> ExprItem(<<"U+00B2">>, <<"^","2">>, 3, TRUE, TRUE)
      [] opt = "Abs" -> ExprItem(<<"a","b","s"," ">>, <<"a","b","s">>, 3, FALSE, FALSE)
      [] opt = "Comb" -> ExprItem(<<"C">>, <<"c","o","m","b">>, 2, TRUE, FALSE)
      [] opt = "Fact" -> ExprItem(<<"!">>, <<"!">>, 3, TRUE, TRUE)
      [] opt = "Mod" -> ExprItem(<<"m","o","d">>, <<"m","o","d">>, 2, TRUE, TRUE)

\* impl ToExpr for PressedButton: Ok(item), Ok(None), or the panic of the
\* todo!() of Ans
btn_to_expr(btn) ==
    CASE btn.k = "Num" ->
            IF btn.n < 16 THEN Ok(ExprItem(<<UpperDigit(btn.n)>>, <<UpperDigit(btn.n)>>,
                                           0, TRUE, TRUE))
            ELSE Ok(None)
      [] btn.k \in {"BinOpt", "UnaryOpt"} -> Ok(opt_to_expr(btn.opt))
      [] btn.k = "BracketLeft" -> Ok(ExprItem(<<"(">>, <<"(">>, 4, TRUE, TRUE))
      [] btn.k = "BracketRight" -> Ok(ExprItem(<<")">>, <<")">>, 4, TRUE, TRUE))
      [] btn.k = "Comma" -> Ok(ExprItem(<<",">>, <<".">>, 0, TRUE, TRUE))
      [] btn.k = "Random" ->
            Ok(ExprItem(<<"U+2684">>, <<"r","a","n","d","o","m">>, 3, TRUE, TRUE))
      [] btn.k = "Const" ->
            IF btn.name = <<"p","i">>
            THEN Ok(ExprItem(<<"U+03C0">>, <<"p","i","(",")">>, 0, TRUE, TRUE))
            ELSE IF btn.name = <<"p","h","i">>
            THEN Ok(ExprItem(<<"U+03D5">>, <<"p","h","i","(",")">>, 0, TRUE, TRUE))
            ELSE Ok(ExprItem(btn.name, btn.name \o <<"(",")">>, 0, TRUE, TRUE))
      [] btn.k = "Ans" -> Panic
      [] OTHER -> Ok(None)

\* ------------------------------------------------------------------------
\* ExprManager (calc/src/expr_manager.rs)
\* ------------------------------------------------------------------------
\* ExprManager::new
ExprManagerNew == [cursor_pos |-> 0, btn_stack |-> <<>>, dirty_flipper |-> TRUE]

\* usize::clamp(0, max)
Clamp(v, max) == IF v < 0 THEN 0 ELSE IF v > max THEN max ELSE v

\* usize::saturating_sub(1)
saturating_sub1(v) == IF v = 0 THEN 0 ELSE v - 1

\* a cursor that is not kept within the stack
move_cursor_unclamped(em, left) ==
    [em EXCEPT !.cursor_pos = IF left THEN saturating_sub1(em.cursor_pos)
                              ELSE em.cursor_pos + 1]

\* ExprManager::move_cursor
move_cursor(em, left) ==
    [em EXCEPT !.cursor_pos =
        Clamp(IF left THEN saturating_sub1(em.cursor_pos) ELSE em.cursor_pos + 1,
              Len(em.btn_stack))]

\* ExprManager::invalidate
invalidate(em) == [em EXCEPT !.dirty_flipper = ~em.dirty_flipper]

\* Vec::insert(index, element), index counted from 0
VecInsert(v, index, x) == SubSeq(v, 1, index) \o <<x>> \o SubSeq(v, index + 1, Len(v))

\* Vec::remove(index), index counted from 0
VecRemove(v, index) == SubSeq(v, 1, index) \o SubSeq(v, index + 2, Len(v))

\* ExprManager::process_button: the manager afterwards, or the panic of
\* Evaluate
process_button(em, btn) ==
    CASE btn.k = "Clear" ->
            Ok(invalidate([em EXCEPT !.btn_stack = <<>>, !.cursor_pos = 0]))
      [] btn.k = "Delete" ->
            IF em.cursor_pos # 0
            THEN Ok(invalidate(move_cursor(
                    [em EXCEPT !.btn_stack = VecRemove(@, saturating_sub1(em.cursor_pos))],
                    TRUE)))
            ELSE Ok(invalidate(em))
      [] btn.k = "MoveRight" -> Ok(invalidate(move_cursor(em, FALSE)))
      [] btn.k = "MoveLeft" -> Ok(invalidate(move_cursor(em, TRUE)))
      [] btn.k = "Evaluate" -> Panic
      [] OTHER ->
            Ok(invalidate(move_cursor(
                [em EXCEPT !.btn_stack = VecInsert(@, em.cursor_pos, btn)], FALSE)))

\* get_display_str, the loop over btn_stack from its i-th button on
RECURSIVE display_loop(_, _, _)
display_loop(em, i, disp_str) ==
    IF i > Len(em.btn_stack) THEN Ok(disp_str)
    ELSE Try(btn_to_expr(em.btn_stack[i]), LAMBDA item :
             IF item = None THEN display_loop(em, i + 1, disp_str)
             ELSE IF i - 1 = saturating_sub1(em.cursor_pos) /\ em.cursor_pos # 0
             THEN display_loop(em, i + 1, disp_str \o item.disp \o <<CURSOR_CHAR>>)
             ELSE display_loop(em, i + 1, disp_str \o item.disp))

\* ExprManager::get_display_str
get_display_str(em, with_cursor) ==
    IF em.btn_stack = <<>> THEN
        (IF with_cursor THEN Ok(<<CURSOR_CHAR>>) ELSE Ok(<<"0">>))
    ELSE display_loop(em, 1, IF em.cursor_pos = 0 /\ with_cursor THEN <<CURSOR_CHAR>> ELSE <<>>)

\* Token::new of expr_manager.rs; arity is <<>> for None and <<n>> for Some(n)
ExprToken(btn, item, arity) ==
    [btn |-> btn,
     item |-> IF arity = <<1>> THEN [item EXCEPT !.priority = 3] ELSE item,
     arity |-> IF arity = <<>> THEN 0 ELSE arity[1]]

\* Btn::UnaryOpt(Opt::Fact | Opt::Pow2)
IsRightUnary(btn) == btn.k = "UnaryOpt" /\ btn.opt \in {"Fact", "Pow2"}

\* u8::to_string: the decimal digits of n
RECURSIVE u8_to_string(_)
u8_to_string(n) ==
    IF n < 10 THEN <<DigitSeq[n + 1]>> ELSE u8_to_string(n \div 10) \o <<DigitSeq[(n % 10) + 1]>>

MulToken == ExprToken(BtnBinOpt("Mul"), opt_to_expr("Mul"), <<2>>)

\* tokenize, "Check for implicit multiplication sign"
implicit_multiply(btn, toks) ==
    CASE btn.k = "Num" ->
            IF toks # <<>> /\ IsRightUnary(Last(toks).btn) THEN Append(toks, MulToken)
            ELSE toks
      [] IsRightUnary(btn) -> toks
      [] btn.k \in {"UnaryOpt", "Const", "BracketLeft"} ->
            IF toks # <<>> /\ (Last(toks).btn.k \in {"Num", "Const"}
                               \/ IsRightUnary(Last(toks).btn))
            THEN Append(toks, MulToken)
            ELSE toks
      [] OTHER -> toks

\* tokenize, the arity of `+` and `-` after the tokens toks
sign_arity(toks) ==
    IF toks = <<>> THEN 1
    ELSE CASE Last(toks).btn.k = "BinOpt" -> 1
           [] IsRightUnary(Last(toks).btn) -> 2
           [] Last(toks).btn.k = "BracketLeft" -> 1
           [] OTHER -> 2

\* tokenize, the second match: the token of btn, or btn merged into the
\* number before it
tokenize_btn(btn, btn_expr, toks) ==
    CASE btn.k \in {"Num", "Comma"} ->
            IF toks = <<>> THEN Append(toks, ExprToken(btn, btn_expr, <<0>>))
            ELSE IF Last(toks).btn.k \in {"Num", "Comma"}
            THEN [toks EXCEPT ![Len(toks)].item.eval =
                    @ \o (IF btn.k = "Num" THEN u8_to_string(btn.n) ELSE btn_expr.eval)]
            ELSE Append(toks, ExprToken(btn, btn_expr, <<>>))
      [] btn.k = "BinOpt" /\ btn.opt \in {"Add", "Sub"} ->
            Append(toks, ExprToken(btn, btn_expr, <<sign_arity(toks)>>))
      [] btn.k = "BinOpt" /\ btn.opt \notin {"Add", "Sub"} ->
            Append(toks, ExprToken(btn, btn_expr, <<2>>))
      [] btn.k = "UnaryOpt" -> Append(toks, ExprToken(btn, btn_expr, <<1>>))
      [] OTHER -> Append(toks, ExprToken(btn, btn_expr, <<>>))

RECURSIVE tokenize_loop(_, _, _)
tokenize_loop(btn_stack, i, toks) ==
    IF i > Len(btn_stack) THEN Ok(toks)
    ELSE Try(btn_to_expr(btn_stack[i]), LAMBDA btn_expr :
             IF btn_expr = None THEN tokenize_loop(btn_stack, i + 1, toks)
             ELSE tokenize_loop(btn_stack, i + 1,
                    tokenize_btn(btn_stack[i], btn_expr,
                                 implicit_multiply(btn_stack[i], toks))))

\* ExprManager::tokenize
tokenize(em) == tokenize_loop(em.btn_stack, 1, <<>>)

\* to_postfix, the loop of the BinOpt arm: operators leave opt_stack for the
\* queue until one binds less
RECURSIVE pop_operators(_, _, _)
pop_operators(postfix, opt_stack, token) ==
    IF opt_stack = <<>> THEN [postfix |-> postfix, opt_stack |-> opt_stack]
    ELSE IF Last(opt_stack).btn = BtnBracketLeft
            \/ Last(opt_stack).item.priority < token.item.priority
            \/ (Last(opt_stack).item.priority = token.item.priority /\ ~token.item.left_asoc)
    THEN [postfix |-> postfix, opt_stack |-> opt_stack]
    ELSE pop_operators(Append(postfix, Last(opt_stack)), Front(opt_stack), token)

\* to_postfix, the loop of the BracketRight arm: until the left bracket
RECURSIVE pop_to_bracket(_, _)
pop_to_bracket(postfix, opt_stack) ==
    IF opt_stack # <<>> /\ Last(opt_stack).btn # BtnBracketLeft
    THEN pop_to_bracket(Append(postfix, Last(opt_stack)), Front(opt_stack))
    ELSE [postfix |-> postfix, opt_stack |-> opt_stack]

\* Vec reversed: the operators left on the stack, top first
RECURSIVE Reverse(_)
Reverse(s) == IF s = <<>> THEN <<>> ELSE Append(Reverse(Tail(s)), Head(s))

\* the token of Random as to_postfix rewrites it
random_token(token) ==
    [btn |-> BtnConst(<<"r","a","n","d","o","m">>),
     item |-> btn_to_expr(BtnConst(<<"r","a","n","d","o","m">>)).val,
     arity |-> 0]

RECURSIVE postfix_loop(_, _, _, _)
postfix_loop(toks, i, postfix, opt_stack) ==
    IF i > Len(toks) THEN Ok(postfix \o Reverse(opt_stack))
    ELSE
      Let(toks[i], LAMBDA token :
        CASE token.btn.k \in {"Num", "Comma", "Const"} ->
                postfix_loop(toks, i + 1, Append(postfix, token), opt_stack)
          [] token.btn.k = "Random" ->
                postfix_loop(toks, i + 1, Append(postfix, random_token(token)), opt_stack)
          [] token.btn.k = "BinOpt" ->
                Let(pop_operators(postfix, opt_stack, token), LAMBDA p :
                    postfix_loop(toks, i + 1, p.postfix, Append(p.opt_stack, token)))
          [] token.btn.k \in {"UnaryOpt", "BracketLeft"} ->
                postfix_loop(toks, i + 1, postfix, Append(opt_stack, token))
          [] token.btn.k = "BracketRight" ->
                Let(pop_to_bracket(postfix, opt_stack), LAMBDA p :
                    IF p.opt_stack = <<>> THEN Err("Failed to match left parenthesis.")
                    ELSE Let(Front(p.opt_stack), LAMBDA rest :
                        IF rest # <<>> /\ Last(rest).btn.k = "UnaryOpt"
                        THEN postfix_loop(toks, i + 1, Append(p.postfix, Last(rest)),
                                          Front(rest))
                        ELSE postfix_loop(toks, i + 1, p.postfix, rest)))
          [] OTHER -> Err("Invalid token button"))

\* ExprManager::to_postfix
to_postfix(toks) == postfix_loop(toks, 1, <<>>, <<>>)

\* push_func, the closure to_operand
to_operand(tok, token) ==
    IF tok.btn = BtnEvaluate /\ tok.item.skip_conv
       /\ tok.item.priority < token.item.priority /\ token.item.skip_conv
    THEN <<"(">> \o tok.item.eval \o <<")">>
    ELSE tok.item.eval

\* push_func, the evaluate string of an operation of arity 1
unary_eval(token, operand) ==
    IF token.item.skip_conv THEN
        (IF IsRightUnary(token.btn) THEN operand \o token.item.eval
         ELSE token.item.eval \o operand)
    ELSE IF token.btn = BtnUnaryOpt("Root3")
    THEN token.item.eval \o <<"(","3",","," ">> \o operand \o <<")">>
    ELSE token.item.eval \o <<"(">> \o operand \o <<")">>

\* push_func, the evaluate string of an operation of arity 2
binary_eval(token, operand1, operand2) ==
    IF token.item.skip_conv THEN operand1 \o token.item.eval \o operand2
    ELSE token.item.eval \o <<"(">> \o operand1 \o <<",">> \o operand2 \o <<")">>

\* push_func, "Change the top of the stack to the new compound operation"
compound(top, token, eval) ==
    [top EXCEPT !.btn = BtnEvaluate, !.item.eval = eval,
                !.item.skip_conv = token.item.skip_conv,
                !.item.priority = token.item.priority, !.arity = token.arity]

\* ExprManager::push_func: the stack afterwards, or the error
push_func(eval_stack, token) ==
    IF Len(eval_stack) < token.arity THEN Err("Not enough operands for token")
    ELSE IF token.arity = 0 THEN Ok(eval_stack)
    ELSE IF token.arity = 1 THEN
        Ok(Append(Front(eval_stack),
                  compound(Last(eval_stack), token,
                           unary_eval(token, to_operand(Last(eval_stack), token)))))
    ELSE
        Let(Front(eval_stack), LAMBDA popped :
            Ok(Append(Front(popped),
                      compound(Last(popped), token,
                               binary_eval(token, to_operand(Last(popped), token),
                                           to_operand(Last(eval_stack), token))))))

RECURSIVE eval_str_loop(_, _, _)
eval_str_loop(postfix, i, eval_stack) ==
    IF i > Len(postfix) THEN
        (IF eval_stack = <<>> THEN Panic ELSE Ok(Last(eval_stack).item.eval))
    ELSE
      Let(postfix[i], LAMBDA token :
        CASE token.btn.k \in {"Num", "Comma", "Const", "Random"} ->
                eval_str_loop(postfix, i + 1, Append(eval_stack, token))
          [] token.btn.k \in {"UnaryOpt", "BinOpt"} ->
                Try(push_func(eval_stack, token), LAMBDA stack :
                    eval_str_loop(postfix, i + 1, stack))
          [] OTHER -> Panic)

\* ExprManager::to_eval_str
to_eval_str(postfix) ==
    IF postfix = <<>> THEN Panic ELSE eval_str_loop(postfix, 1, <<>>)

\* ExprManager::get_eval_str
get_eval_str(em) ==
    IF em.btn_stack = <<>> THEN Ok(<<"0">>)
    ELSE Try(tokenize(em), LAMBDA toks :
         Try(to_postfix(toks), LAMBDA postfix :
             to_eval_str(postfix)))

\* ------------------------------------------------------------------------
\* CalcState (calc/src/lib.rs) and the add-constant form (buttons_ui.rs)
\* ------------------------------------------------------------------------
\* Constants::new
ConstantsNew == [keys |-> <<>>, values |-> <<>>, key_str |-> <<>>, value_str |-> <<>>]

\* CalcState::new: result and result_is_err
ResultNew == [result |-> <<>>, result_is_err |-> FALSE]

\* format!("{:?}", e): the text is kept as one unit, the name of the error
DebugText(err) == <<err>>

\* CalcState::process_button(Evaluate), after get_eval_str returned eval_str:
\* the registry and tokens of calc, the result shown, and Panic in ret if
\* the evaluation panicked
show_result(variables, eval_str, radix, rnd) ==
    Let(calculator_evaluate(variables, eval_str, rnd), LAMBDA out :
        [variables |-> out.variables, tokens |-> out.tokens, ret |-> out.ret,
         result |->
            IF out.ret.kind = "Ok"
            THEN [result |-> to_string(out.ret.val, radix, 5), result_is_err |-> FALSE]
            ELSE IF out.ret.kind = "Err"
            THEN [result |-> DebugText(out.ret.err), result_is_err |-> TRUE]
            ELSE ResultNew])

\* CalcState::process_button(Clear), after the relay to the manager
clear_result(result) == IF result.result_is_err THEN ResultNew ELSE result

\* CalcState::is_new_constant
is_new_constant(constants, key) ==
    ~(key \in Range(constants.keys) \/ key = <<"e">> \/ key = <<"p","i">>
      \/ key = <<"A","N","S">>)

\* CalcState::add_constant: registry, constants and the value returned; a
\* panic of math::evaluate is the panic of the call
CalcState_add_constant(variables, constants, key, value) ==
    Let(calculator_evaluate(NewVariables, value, zero).ret, LAMBDA num :
        IF num.kind = "Panic"
        THEN [variables |-> variables, constants |-> constants, ret |-> Panic]
        ELSE IF ~IsOk(num)
        THEN [variables |-> variables, constants |-> constants, ret |-> Bool(FALSE)]
        ELSE Let(add_constant(variables, key, num.val), LAMBDA out :
            IF out.ret.val
            THEN [variables |-> out.variables,
                  constants |-> [constants EXCEPT !.keys = Append(@, key),
                                                  !.values = Append(@, value)],
                  ret |-> Bool(TRUE)]
            ELSE [variables |-> out.variables, constants |-> constants,
                  ret |-> Bool(FALSE)]))

\* CalcState::remove_constant(index), index counted from 0
CalcState_remove_constant(variables, constants, index) ==
    [variables |-> remove_constant(variables, constants.keys[index + 1]).variables,
     constants |-> [constants EXCEPT !.keys = VecRemove(@, index),
                                     !.values = VecRemove(@, index)]]

\* str::parse::<f64>: an optional sign, then digits with at most one `.`
\* and at least one digit, then an optional exponent; or inf, infinity, nan
AllDigits(s) == \A i \in DOMAIN s : IsDigit(s[i])
IsDecimal(s) ==
    \E k \in 0..Len(s) :
        /\ AllDigits(SubSeq(s, 1, k))
        /\ \/ k = Len(s) /\ k > 0
           \/ /\ k < Len(s) /\ s[k + 1] = "."
              /\ AllDigits(SubSeq(s, k + 2, Len(s)))
              /\ Len(s) > 1
IsExponent(s) ==
    /\ s # <<>>
    /\ Let(IF s[1] \in {"+", "-"} THEN Tail(s) ELSE s, LAMBDA ds : ds # <<>> /\ AllDigits(ds))
IsUnsignedF64(s) ==
    \/ to_lowercase(s) \in { <<"i","n","f">>, <<"i","n","f","i","n","i","t","y">>,
                             <<"n","a","n">> }
    \/ IsDecimal(s)
    \/ \E k \in 1..(Len(s) - 1) :
        /\ s[k + 1] \in {"e", "E"}
        /\ IsDecimal(SubSeq(s, 1, k))
        /\ IsExponent(SubSeq(s, k + 2, Len(s)))
parse_f64_is_ok(s) ==
    /\ s # <<>>
    /\ IsUnsignedF64(IF s[1] \in {"+", "-"} THEN Tail(s) ELSE s)

\* handle_add_contant with the fields key_str and value_str as filled in
HandleOut(variables, constants, ret) ==
    [variables |-> variables, constants |-> constants, ret |-> ret]

handle_add_contant(variables, constants) ==
    Let(constants.key_str, LAMBDA key :
    Let(constants.value_str, LAMBDA value :
        IF key = <<>> \/ value = <<>> THEN HandleOut(variables, constants, NoneVal)
        ELSE IF ~parse_f64_is_ok(value) THEN HandleOut(variables, constants, NoneVal)
        ELSE IF ~IsLetter(key[1]) THEN HandleOut(variables, constants, NoneVal)
        ELSE IF ~is_new_constant(constants, key) THEN HandleOut(variables, constants, NoneVal)
        ELSE Let(CalcState_add_constant(variables, constants, key, value), LAMBDA out :
            IF out.ret = Bool(TRUE)
            THEN HandleOut(out.variables,
                           [out.constants EXCEPT !.key_str = <<>>, !.value_str = <<>>],
                           NoneVal)
            ELSE IF out.ret = Panic THEN HandleOut(out.variables, out.constants, Panic)
            ELSE HandleOut(out.variables, out.constants, NoneVal))))

\* ------------------------------------------------------------------------
\* State
\* ------------------------------------------------------------------------
VARIABLES
    variables,  \* Calculator.variables: the registry, name -> Variable
    tokens,     \* Calculator.tokens: the tokens of the last scan
    scanner,    \* a Scanner: iter, state, cnt, buf
    input,      \* the string argument of the last call (a sequence of chars)
    num,        \* the Number argument of the last call
    call,       \* the last call made
    ret,        \* what the last call returned
    before,     \* the registry when the last call was made
    alive,      \* FALSE once a call has panicked
    args,       \* the other arguments of the last call, by name
    expr_man,   \* CalcState.expr_man: cursor_pos, btn_stack, dirty_flipper
    constants,  \* CalcState.constants: keys, values, key_str, value_str
    result      \* CalcState.result and CalcState.result_is_err

vars == <<variables, tokens, scanner, input, num, call, ret, before, alive, args, expr_man, constants, result>>

\* ------------------------------------------------------------------------
\* The Calculator and its callers
\* ------------------------------------------------------------------------
\* the expressions the callers evaluate
Exprs ==
    { <<"1","+","2">>,
      <<"a","n","s","(",")">>,
      <<"A","N","S","(",")">>,
      <<"x","(",")">>,
      <<"X","(",")">>,
      <<"p","i","(",")">>,
      <<"r","a","n","d","o","m","(",")">>,
      <<"1","/","0">>,
      <<"7"," ","m","o","d"," ","3">>,
      <<"1","+">>,
      <<"2","$">>,
      <<"!">> }

\* the names the callers register, remove and look up
Names ==
    { <<"x">>, <<"X">>, <<"a","n","s">>, <<"p","i">>, <<"P","I">>,
      <<"m","o","d">>, <<"s","q","r","t">>, <<"S","q","r","t">> }

\* the values the callers register
Vals == {[n |-> 2, d |-> 1], [n |-> 1, d |-> 2]}

\* the values Number::random() draws in the model
RandomVals == {[n |-> 0, d |-> 1], [n |-> 1, d |-> 2]}

Init ==
    /\ variables = NewVariables
    /\ tokens = <<>>
    /\ scanner = ScannerNew(<<>>)
    /\ input = <<>>
    /\ num = zero
    /\ call = "new"
    /\ ret = NoneVal
    /\ before = NewVariables
    /\ alive = TRUE
    /\ args = <<>>
    /\ expr_man = ExprManagerNew
    /\ constants = ConstantsNew
    /\ result = ResultNew

\* Calculator::evaluate(s); the Scanner is a local of the call
Evaluate(s, rnd) ==
    /\ alive
    /\ Let(calculator_evaluate(variables, s, rnd), LAMBDA out :
           /\ out.ret.kind # "Untracked"
           /\ variables' = out.variables
           /\ tokens' = out.tokens
           /\ ret' = out.ret
           /\ alive' = (out.ret.kind # "Panic"))
    /\ input' = s
    /\ num' = zero
    /\ call' = "evaluate"
    /\ before' = variables
    /\ UNCHANGED <<scanner, args, expr_man, constants, result>>

\* Calculator::add_constant(name, v)
AddConstant(name, v) ==
    /\ alive
    /\ Let(add_constant(variables, name, v), LAMBDA out :
           /\ variables' = out.variables
           /\ ret' = out.ret)
    /\ input' = name
    /\ num' = v
    /\ call' = "add_constant"
    /\ before' = variables
    /\ UNCHANGED <<tokens, scanner, alive, args, expr_man, constants, result>>

\* Calculator::remove_constant(name)
RemoveConstant(name) ==
    /\ alive
    /\ Let(remove_constant(variables, name), LAMBDA out :
           /\ variables' = out.variables
           /\ ret' = out.ret)
    /\ input' = name
    /\ num' = zero
    /\ call' = "remove_constant"
    /\ before' = variables
    /\ UNCHANGED <<tokens, scanner, alive, args, expr_man, constants, result>>

\* Calculator::get_constant(name)
GetConstant(name) ==
    /\ alive
    /\ input' = name
    /\ num' = zero
    /\ call' = "get_constant"
    /\ ret' = get_constant(variables, name)
    /\ before' = variables
    /\ UNCHANGED <<variables, tokens, scanner, alive, args, expr_man, constants, result>>

Next ==
    \/ \E s \in Exprs, rnd \in RandomVals : Evaluate(s, rnd)
    \/ \E name \in Names, v \in Vals : AddConstant(name, v)
    \/ \E name \in Names : RemoveConstant(name)
    \/ \E name \in Names : GetConstant(name)

Spec == Init /\ [][Next]_vars

\* ------------------------------------------------------------------------
\* The engine on its own: Engine::execute on one token sequence
\* ------------------------------------------------------------------------
N0 == Number([n |-> 0, d |-> 1])
N2 == Number([n |-> 2, d |-> 1])
N3 == Number([n |-> 3, d |-> 1])
N64 == Number([n |-> 64, d |-> 1])
IdAbs == Id(<<"a","b","s">>)
IdPow == Id(<<"p","o","w">>)
IdE == Id(<<"e">>)
IdSqrt == Id(<<"s","q","r","t">>)
IdRoot == Id(<<"r","o","o","t">>)
Signs == {"Plus", "Minus"}
BinOps == {"Plus", "Minus", "Multiply", "Divide", "Power", "Modulo"}

\* every sequence of at most MaxTokens tokens over this alphabet
TokAlphabet ==
    { N2, N3, Operator("Plus"), Operator("Minus"), Operator("Multiply"),
      Operator("Power"), FactorialSign, ParenLeft, ParenRight, Comma, IdAbs, IdPow }
ShortInputs == UNION {[1..n -> TokAlphabet] : n \in 0..MaxTokens}

\* operator chains a op1 b op2 c ..., bare and inside the contexts below
ChainNums == {[n |-> 2, d |-> 1], [n |-> 3, d |-> 1]}
ChainTokens(nums, ops) ==
    [i \in 1..(2 * Len(ops) + 1) |->
        IF i % 2 = 1 THEN Number(nums[(i + 1) \div 2]) ELSE Operator(ops[i \div 2])]
Contexts ==
    { [name |-> "top", pre |-> <<>>, post |-> <<>>],
      [name |-> "paren", pre |-> <<ParenLeft>>, post |-> <<ParenRight>>],
      [name |-> "abs", pre |-> <<IdAbs, ParenLeft>>, post |-> <<ParenRight>>],
      [name |-> "pow1", pre |-> <<IdPow, ParenLeft>>, post |-> <<Comma, N2, ParenRight>>],
      [name |-> "pow2", pre |-> <<IdPow, ParenLeft, N2, Comma>>, post |-> <<ParenRight>>] }
ChainInputs ==
    UNION { { c.pre \o ChainTokens(nums, ops) \o c.post :
                c \in Contexts, nums \in [1..(k + 1) -> ChainNums], ops \in [1..k -> BinOps] } :
            k \in 2..MaxChainOps }

\* a run of signs between a left context and an operand
SignRuns == UNION {[1..n -> {Operator("Plus"), Operator("Minus")}] : n \in 1..MaxRun}
SignContexts ==
    { [pre |-> <<>>, post |-> <<>>],
      [pre |-> <<N3>>, post |-> <<>>],
      [pre |-> <<N2, Operator("Multiply")>>, post |-> <<>>],
      [pre |-> <<N2, Operator("Divide")>>, post |-> <<>>],
      [pre |-> <<N2, Operator("Power")>>, post |-> <<>>],
      [pre |-> <<N2, Operator("Modulo")>>, post |-> <<>>],
      [pre |-> <<N3, FactorialSign>>, post |-> <<>>],
      [pre |-> <<ParenLeft>>, post |-> <<ParenRight>>],
      [pre |-> <<IdAbs, ParenLeft>>, post |-> <<ParenRight>>],
      [pre |-> <<IdPow, ParenLeft, N2, Comma>>, post |-> <<ParenRight>>] }
Operands ==
    { <<N3>>, <<N0>>, <<ParenLeft, N3, ParenRight>>, <<IdAbs, ParenLeft, N3, ParenRight>>,
      <<IdE, ParenLeft, ParenRight>> }
Tails ==
    { <<>>, <<Operator("Power"), N2>>, <<Operator("Multiply"), N2>>,
      <<Operator("Divide"), N2>>, <<FactorialSign>> }
SignInputs ==
    { c.pre \o run \o x \o tl \o c.post :
        c \in SignContexts, run \in SignRuns, x \in Operands, tl \in Tails }

\* a value directly followed by the start of another value
MulLefts ==
    { <<N2>>, <<N3, FactorialSign>>, <<ParenLeft, N2, ParenRight>>,
      <<IdE, ParenLeft, ParenRight>>, <<IdAbs, ParenLeft, N3, ParenRight>>,
      <<ParenLeft, N2, Operator("Plus"), N3, ParenRight>> }
MulRights ==
    { <<N3>>, <<N2>>, <<ParenLeft, N3, ParenRight>>, <<IdE, ParenLeft, ParenRight>>,
      <<IdAbs, ParenLeft, N2, ParenRight>>,
      <<ParenLeft, N2, Operator("Plus"), N3, ParenRight>> }
MulHeads == { <<>>, <<N3, Operator("Minus")>>, <<N3, Operator("Power")>>, <<N3, Operator("Divide")>> }
MulInputs ==
    { h \o l \o r \o tl : h \in MulHeads, l \in MulLefts, r \in MulRights, tl \in Tails }

\* `!`, `(+)`, `sqrt()`, `|`, `root(3, -(64))`, `((2+3) - 2`, `root(2,3`,
\* `2**3`, `2*/2 + 3`
ExampleInputs ==
    { <<FactorialSign>>,
      <<ParenLeft, Operator("Plus"), ParenRight>>,
      <<IdSqrt, ParenLeft, ParenRight>>,
      <<VerticalLine>>,
      <<IdRoot, ParenLeft, N3, Comma, Operator("Minus"), ParenLeft, N64, ParenRight, ParenRight>>,
      <<ParenLeft, ParenLeft, N2, Operator("Plus"), N3, ParenRight, Operator("Minus"), N2>>,
      <<IdRoot, ParenLeft, N2, Comma, N3>>,
      <<N2, Operator("Multiply"), Operator("Multiply"), N3>>,
      <<N2, Operator("Multiply"), Operator("Divide"), N2, Operator("Plus"), N3>> }

\* calls and groups: a head, up to MaxArgs arguments separated by commas and
\* the closing `)`, after one of the prefixes
CallHeads ==
    { <<ParenLeft>>, <<IdAbs, ParenLeft>>, <<IdPow, ParenLeft>>, <<IdRoot, ParenLeft>>,
      <<IdE, ParenLeft>> }
CallArgs ==
    { <<N2>>, <<N3, Operator("Plus"), N2>>, <<ParenLeft, N2, Comma, N3, ParenRight>>,
      <<IdPow, ParenLeft, N2, Comma, N3, ParenRight>>, <<IdAbs, ParenLeft, N2, ParenRight>>,
      <<IdE, ParenLeft, ParenRight>>, <<IdE, ParenLeft, N2, ParenRight>> }
CallPrefixes == { <<>>, <<N2, Operator("Plus")>>, <<N2, Comma>> }

RECURSIVE JoinArgs(_)
JoinArgs(items) ==
    IF items = <<>> THEN <<>>
    ELSE IF Len(items) = 1 THEN items[1]
    ELSE items[1] \o <<Comma>> \o JoinArgs(Tail(items))

CallInputs ==
    UNION { { pre \o h \o JoinArgs(items) \o <<ParenRight>> :
                pre \in CallPrefixes, h \in CallHeads, items \in [1..k -> CallArgs] } :
            k \in 0..MaxArgs }

\* `b!` and `a op b!`, alone or before `+ 2`: the tokens of each operand and
\* its value, and for b the value of its factorial
N5 == Number([n |-> 5, d |-> 1])
FactLefts ==
    { [toks |-> <<N2>>, val |-> FromInt(2)],
      [toks |-> <<N3>>, val |-> FromInt(3)],
      [toks |-> <<N5, FactorialSign>>, val |-> FromInt(120)],
      [toks |-> <<ParenLeft, N2, Operator("Plus"), N3, ParenRight>>, val |-> FromInt(5)] }
FactOperands ==
    { [toks |-> <<N0>>, fact |-> Ok(FromInt(1))],
      [toks |-> <<N2>>, fact |-> Ok(FromInt(2))],
      [toks |-> <<N3>>, fact |-> Ok(FromInt(6))],
      [toks |-> <<N5>>, fact |-> Ok(FromInt(120))],
      [toks |-> <<ParenLeft, N2, Operator("Plus"), N2, ParenRight>>, fact |-> Ok(FromInt(24))],
      [toks |-> <<IdAbs, ParenLeft, N3, ParenRight>>, fact |-> Ok(FromInt(6))],
      [toks |-> <<N3, FactorialSign>>, fact |-> Ok(FromInt(720))],
      [toks |-> <<ParenLeft, N2, Operator("Minus"), N3, ParenRight>>,
       fact |-> Err("FactorialNegative")] }
FactTails == { <<>>, <<Operator("Plus"), N2>> }
FactInputs ==
    { b.toks \o <<FactorialSign>> \o tl : b \in FactOperands, tl \in FactTails }
    \cup { l.toks \o <<Operator(op)>> \o b.toks \o <<FactorialSign>> \o tl :
             l \in FactLefts, op \in BinOps, b \in FactOperands, tl \in FactTails }

\* `log(b, x)` with b and x among 0, 2, 5, -2 and -5
IdLog == Id(<<"l","o","g">>)
LogArgs ==
    { [toks |-> <<N0>>, val |-> zero],
      [toks |-> <<N2>>, val |-> FromInt(2)],
      [toks |-> <<N5>>, val |-> FromInt(5)],
      [toks |-> <<Operator("Minus"), N2>>, val |-> FromInt(-2)],
      [toks |-> <<Operator("Minus"), N5>>, val |-> FromInt(-5)] }
LogCall(b, x) == <<IdLog, ParenLeft>> \o b.toks \o <<Comma>> \o x.toks \o <<ParenRight>>
LogInputs == { LogCall(b, x) : b \in LogArgs, x \in LogArgs }

\* calls, each with the value of the function on the values of its
\* arguments in the order written, inside the contexts pre ... post
IdComb == Id(<<"c","o","m","b">>)
FrameCalls ==
    { [toks |-> <<IdAbs, ParenLeft, N2, ParenRight>>, val |-> abs(FromInt(2))],
      [toks |-> <<IdAbs, ParenLeft, Operator("Minus"), N2, ParenRight>>,
       val |-> abs(FromInt(-2))],
      [toks |-> <<IdAbs, ParenLeft, N2, Operator("Minus"), N5, ParenRight>>,
       val |-> abs(FromInt(-3))],
      [toks |-> <<IdPow, ParenLeft, N2, Comma, N3, ParenRight>>,
       val |-> power(FromInt(2), FromInt(3))],
      [toks |-> <<IdPow, ParenLeft, N3, Comma, N2, ParenRight>>,
       val |-> power(FromInt(3), FromInt(2))],
      [toks |-> <<IdPow, ParenLeft, Operator("Minus"), N2, Comma, N3, ParenRight>>,
       val |-> power(FromInt(-2), FromInt(3))],
      [toks |-> <<IdPow, ParenLeft, N2, Comma, Operator("Minus"), N2, ParenRight>>,
       val |-> power(FromInt(2), FromInt(-2))],
      [toks |-> <<IdPow, ParenLeft, N3, Operator("Minus"), N2, Operator("Multiply"), N2,
                  Comma, N2, Operator("Plus"), N3, ParenRight>>,
       val |-> power(FromInt(-1), FromInt(5))],
      [toks |-> <<IdPow, ParenLeft, IdAbs, ParenLeft, Operator("Minus"), N2, ParenRight,
                  Comma, IdComb, ParenLeft, N3, Comma, N2, ParenRight, ParenRight>>,
       val |-> power(FromInt(2), FromInt(3))],
      [toks |-> <<IdPow, ParenLeft, ParenLeft, N2, ParenRight, Comma, ParenLeft, N3,
                  ParenRight, ParenRight>>,
       val |-> power(FromInt(2), FromInt(3))],
      [toks |-> <<IdComb, ParenLeft, N5, Comma, N2, ParenRight>>,
       val |-> combination(FromInt(5), FromInt(2))],
      [toks |-> <<IdComb, ParenLeft, N2, Comma, N5, ParenRight>>,
       val |-> combination(FromInt(2), FromInt(5))],
      [toks |-> <<IdComb, ParenLeft, N2, Comma, Operator("Minus"), N5, ParenRight>>,
       val |-> combination(FromInt(2), FromInt(-5))],
      [toks |-> <<IdE, ParenLeft, ParenRight>>, val |-> Ok(e)],
      [toks |-> <<IdAbs, ParenLeft, Operator("Minus"), ParenLeft, N2, ParenRight, ParenRight>>,
       val |-> abs(FromInt(-2))],
      [toks |-> <<IdPow, ParenLeft, N2, Comma, Operator("Minus"), ParenLeft, N2, ParenRight,
                  ParenRight>>,
       val |-> power(FromInt(2), FromInt(-2))],
      [toks |-> <<IdPow, ParenLeft, N2, Comma, Operator("Minus"), IdAbs, ParenLeft, N2,
                  ParenRight, ParenRight>>,
       val |-> power(FromInt(2), FromInt(-2))] }
FramePrefixes ==
    { <<>>, <<N3, Operator("Plus")>>, <<N3, Operator("Minus")>>, <<N3, Operator("Multiply")>>,
      <<N2, Operator("Power")>>, <<N5, Operator("Minus"), N3, Operator("Multiply")>> }
FrameSuffixes == { <<>>, <<Operator("Plus"), N2>>, <<Operator("Multiply"), N3>>, <<FactorialSign>> }
FrameContexts ==
    [pre : FramePrefixes, post : FrameSuffixes]
        \cup { [pre |-> <<ParenLeft>>, post |-> <<ParenRight>>],
               [pre |-> <<N3, Operator("Multiply"), ParenLeft, N2, Operator("Plus")>>,
                post |-> <<ParenRight>>],
               [pre |-> <<IdAbs, ParenLeft>>, post |-> <<ParenRight>>],
               [pre |-> <<N3, Operator("Plus"), IdPow, ParenLeft, N2, Comma>>,
                post |-> <<ParenRight>>],
               [pre |-> <<N3, Operator("Plus"), IdPow, ParenLeft>>,
                post |-> <<Comma, N2, ParenRight>>] }
FrameInputs == { ctx.pre \o c.toks \o ctx.post : ctx \in FrameContexts, c \in FrameCalls }

TokenInputs ==
    ShortInputs \cup ChainInputs \cup SignInputs \cup MulInputs \cup ExampleInputs
        \cup CallInputs \cup FactInputs \cup LogInputs \cup FrameInputs

InitEngine ==
    /\ variables = NewVariables
    /\ tokens \in TokenInputs
    /\ scanner = ScannerNew(<<>>)
    /\ input = <<>>
    /\ num = zero
    /\ call = "input"
    /\ ret = NoneVal
    /\ before = NewVariables
    /\ alive = TRUE
    /\ args = <<>>
    /\ expr_man = ExprManagerNew
    /\ constants = ConstantsNew
    /\ result = ResultNew

\* Engine::execute(tokens, variables); no input calls random()
Execute ==
    /\ call = "input"
    /\ call' = "execute"
    /\ ret' = execute(tokens, variables, zero)
    /\ alive' = (ret'.kind # "Panic")
    /\ UNCHANGED <<variables, tokens, scanner, input, num, before, args, expr_man, constants, result>>

NextEngine == Execute

SpecEngine == InitEngine /\ [][NextEngine]_vars

\* ------------------------------------------------------------------------
\* The scanner on its own: Scanner::new(input), then next_token calls
\* ------------------------------------------------------------------------
LexChars == {"0", "1", "5", ".", "x", "b", "a", "+", " "}
ShortTexts == UNION {[1..n -> LexChars] : n \in 0..MaxText}

\* `123456789`, `abaxabaxa`, ` 12345678`, `arccotg(1)` and nine spaces
LongTexts ==
    { <<"1","2","3","4","5","6","7","8","9">>,
      <<"a","b","a","x","a","b","a","x","a">>,
      <<" ","1","2","3","4","5","6","7","8">>,
      <<"a","r","c","c","o","t","g","(","1",")">>,
      <<" "," "," "," "," "," "," "," "," ">> }

LexInputs == ShortTexts \cup LongTexts

\* calls made on one Scanner
MaxCalls == 6

InitLexer ==
    /\ variables = NewVariables
    /\ tokens = <<>>
    /\ input \in LexInputs
    /\ scanner = ScannerNew(input)
    /\ num = zero
    /\ call = "input"
    /\ ret = NoneVal
    /\ before = NewVariables
    /\ alive = TRUE
    /\ args = <<>>
    /\ expr_man = ExprManagerNew
    /\ constants = ConstantsNew
    /\ result = ResultNew

\* Scanner::next_token; num counts the calls, tokens collects the tokens
NextToken ==
    /\ num.n < MaxCalls
    /\ Let(next_token(scanner), LAMBDA r :
           /\ scanner' = r.sc
           /\ ret' = r.out
           /\ tokens' = IF r.out.kind = "Token" THEN Append(tokens, r.out.tok) ELSE tokens)
    /\ num' = FromInt(num.n + 1)
    /\ call' = "next_token"
    /\ UNCHANGED <<variables, input, before, alive, args, expr_man, constants, result>>

NextLexer == NextToken

SpecLexer == InitLexer /\ [][NextLexer]_vars

\* ------------------------------------------------------------------------
\* Number on its own: one call of to_string, modulo or remainder
\* ------------------------------------------------------------------------
\* largest numerator, denominator and precision of the calls
MaxNumer == 8
MaxDenom == 6
MaxPrecision == 2

Nums == {Ratio(n, d) : n \in (-MaxNumer)..MaxNumer, d \in 1..MaxDenom}

\* 0.96, pi and -1/10 besides
FormatNums == Nums \cup {[n |-> 24, d |-> 25], pi, [n |-> -1, d |-> 10]}
\* the integers among them
IntNums == {FromInt(i) : i \in (-MaxNumer)..MaxNumer}

InitNumber ==
    /\ variables = NewVariables
    /\ tokens = <<>>
    /\ scanner = ScannerNew(<<>>)
    /\ input = <<>>
    /\ \/ /\ num \in FormatNums
          /\ args \in [op : {"to_string"}, radix : Radixes, precision : 0..MaxPrecision]
       \/ /\ num \in Nums
          /\ args \in [op : {"modulo", "remainder", "root"}, other : Nums]
       \/ /\ num \in Nums
          /\ args \in [op : {"power"}, other : IntNums]
       \/ /\ num \in IntNums
          /\ args \in [op : {"combination"}, other : IntNums]
    /\ call = "input"
    /\ ret = NoneVal
    /\ before = NewVariables
    /\ alive = TRUE
    /\ expr_man = ExprManagerNew
    /\ constants = ConstantsNew
    /\ result = ResultNew

\* Number::to_string(radix, precision)
Format ==
    /\ call = "input" /\ args.op = "to_string"
    /\ call' = "to_string"
    /\ ret' = to_string(num, args.radix, args.precision)
    /\ UNCHANGED <<variables, tokens, scanner, input, num, before, alive, args, expr_man, constants, result>>

\* Number::modulo(other)
Modulo ==
    /\ call = "input" /\ args.op = "modulo"
    /\ call' = "modulo"
    /\ ret' = modulo(num, args.other)
    /\ alive' = (ret'.kind # "Panic")
    /\ UNCHANGED <<variables, tokens, scanner, input, num, before, args, expr_man, constants, result>>

\* Number::remainder(other)
Remainder ==
    /\ call = "input" /\ args.op = "remainder"
    /\ call' = "remainder"
    /\ ret' = remainder(num, args.other)
    /\ alive' = (ret'.kind # "Panic")
    /\ UNCHANGED <<variables, tokens, scanner, input, num, before, args, expr_man, constants, result>>

\* Number::combination(n, k)
Combination ==
    /\ call = "input" /\ args.op = "combination"
    /\ call' = "combination"
    /\ ret' = combination(num, args.other)
    /\ UNCHANGED <<variables, tokens, scanner, input, num, before, alive, args, expr_man, constants, result>>

\* Number::power(exp)
Power ==
    /\ call = "input" /\ args.op = "power"
    /\ call' = "power"
    /\ ret' = power(num, args.other)
    /\ alive' = (ret'.kind # "Panic")
    /\ UNCHANGED <<variables, tokens, scanner, input, num, before, args, expr_man, constants, result>>

\* Number::root(nth)
Root ==
    /\ call = "input" /\ args.op = "root"
    /\ call' = "root"
    /\ ret' = root(num, args.other)
    /\ alive' = (ret'.kind # "Panic")
    /\ UNCHANGED <<variables, tokens, scanner, input, num, before, args, expr_man, constants, result>>

NextNumber == Format \/ Modulo \/ Remainder \/ Combination \/ Power \/ Root

SpecNumber == InitNumber /\ [][NextNumber]_vars

\* ------------------------------------------------------------------------
\* The buttons: CalcState::process_button, and the strings the display and
\* the evaluation read from the ExprManager
\* ------------------------------------------------------------------------
\* button presses made on one CalcState
MaxPresses == 4

InputButtons ==
    { BtnNum(1), BtnBinOpt("Add"), BtnUnaryOpt("Fact"), BtnUnaryOpt("Abs"),
      BtnBracketLeft, BtnBracketRight, BtnComma, BtnAns, BtnRandom,
      BtnConst(<<"p","i">>) }
EditButtons == { BtnClear, BtnDelete, BtnMoveLeft, BtnMoveRight }

InitButtons ==
    /\ variables = NewVariables
    /\ tokens = <<>>
    /\ scanner = ScannerNew(<<>>)
    /\ input = <<>>
    /\ num = zero
    /\ call = "new"
    /\ ret = NoneVal
    /\ before = NewVariables
    /\ alive = TRUE
    /\ args = <<>>
    /\ expr_man = ExprManagerNew
    /\ constants = ConstantsNew
    /\ result = ResultNew

\* CalcState::process_button(button), button other than Evaluate
PressButton(button) ==
    /\ alive
    /\ num.n < MaxPresses
    /\ expr_man' = process_button(expr_man, button).val
    /\ result' = IF button = BtnClear THEN clear_result(result) ELSE result
    /\ num' = FromInt(num.n + 1)
    /\ call' = "process_button"
    /\ args' = [button |-> button]
    /\ ret' = NoneVal
    /\ UNCHANGED <<variables, tokens, scanner, input, before, alive, constants>>

\* CalcState::process_button(Evaluate) when get_eval_str panics or fails
EvaluateNoString ==
    /\ alive
    /\ num.n < MaxPresses
    /\ ~IsOk(get_eval_str(expr_man))
    /\ alive' = (get_eval_str(expr_man) # Panic)
    /\ ret' = IF get_eval_str(expr_man) = Panic THEN Panic ELSE NoneVal
    /\ num' = FromInt(num.n + 1)
    /\ call' = "process_button"
    /\ args' = [button |-> BtnEvaluate]
    /\ UNCHANGED <<variables, tokens, scanner, input, before, expr_man, constants, result>>

\* CalcState::process_button(Evaluate) when get_eval_str returns a string
EvaluateString(rnd) ==
    /\ alive
    /\ num.n < MaxPresses
    /\ IsOk(get_eval_str(expr_man))
    /\ Let(show_result(variables, get_eval_str(expr_man).val, "Dec", rnd), LAMBDA out :
           /\ out.ret.kind # "Untracked"
           /\ variables' = out.variables
           /\ tokens' = out.tokens
           /\ alive' = (out.ret.kind # "Panic")
           /\ ret' = IF out.ret.kind = "Panic" THEN Panic ELSE NoneVal
           /\ result' = IF out.ret.kind = "Panic" THEN result ELSE out.result)
    /\ num' = FromInt(num.n + 1)
    /\ call' = "process_button"
    /\ args' = [button |-> BtnEvaluate]
    /\ UNCHANGED <<scanner, input, before, expr_man, constants>>

\* ExprManager::get_display_str(with_cursor)
GetDisplayStr(with_cursor) ==
    /\ alive
    /\ ret' = get_display_str(expr_man, with_cursor)
    /\ alive' = (ret' # Panic)
    /\ call' = "get_display_str"
    /\ args' = [with_cursor |-> with_cursor]
    /\ UNCHANGED <<variables, tokens, scanner, input, num, before, expr_man, constants, result>>

\* ExprManager::get_eval_str
GetEvalStr ==
    /\ alive
    /\ ret' = get_eval_str(expr_man)
    /\ alive' = (ret' # Panic)
    /\ call' = "get_eval_str"
    /\ args' = <<>>
    /\ UNCHANGED <<variables, tokens, scanner, input, num, before, expr_man, constants, result>>

NextButtons ==
    \/ \E button \in InputButtons \cup EditButtons : PressButton(button)
    \/ EvaluateNoString
    \/ \E rnd \in RandomVals : EvaluateString(rnd)
    \/ \E with_cursor \in BOOLEAN : GetDisplayStr(with_cursor)
    \/ GetEvalStr

SpecButtons == InitButtons /\ [][NextButtons]_vars

\* ------------------------------------------------------------------------
\* The constants of the GUI: the add-constant form and the removal of a row
\* ------------------------------------------------------------------------
\* most rows of the list of constants
MaxConstants == 3

\* what the user types into the name field and into the value field
FormKeys ==
    { <<>>, <<"x">>, <<"X">>, <<"y">>, <<"a","n","s">>, <<"A","N","S">>, <<"p","i">>,
      <<"P","I">>, <<"s","q","r","t">>, <<"1","x">> }
FormValues == { <<>>, <<"2",".","5">>, <<"1","e","1">>, <<"x">> }

\* the click on `+` of the add-constant form, the fields filled in
HandleAddConstant(key, value) ==
    /\ alive
    /\ Len(constants.keys) < MaxConstants
    /\ Let(handle_add_contant(variables,
                              [constants EXCEPT !.key_str = key, !.value_str = value]),
           LAMBDA out :
               /\ variables' = out.variables
               /\ constants' = out.constants
               /\ ret' = out.ret
               /\ alive' = (out.ret # Panic))
    /\ input' = key
    /\ args' = [value |-> value]
    /\ call' = "handle_add_contant"
    /\ UNCHANGED <<tokens, scanner, num, before, expr_man, result>>

\* the context menu entry of the row index, which exists only for a listed
\* constant: CalcState::remove_constant(index)
RemoveConstantAt(index) ==
    /\ alive
    /\ index < Len(constants.keys)
    /\ Let(CalcState_remove_constant(variables, constants, index), LAMBDA out :
           /\ variables' = out.variables
           /\ constants' = out.constants)
    /\ input' = constants.keys[index + 1]
    /\ args' = [index |-> index]
    /\ call' = "remove_constant"
    /\ ret' = NoneVal
    /\ UNCHANGED <<tokens, scanner, num, before, alive, expr_man, result>>

NextConstants ==
    \/ \E key \in FormKeys, value \in FormValues : HandleAddConstant(key, value)
    \/ \E index \in 0..(MaxConstants - 1) : RemoveConstantAt(index)

SpecConstants == InitButtons /\ [][NextConstants]_vars


\* ------------------------------------------------------------------------
\* Properties of the Calculator (specification Spec)
\* ------------------------------------------------------------------------
Call(name) == name \o <<"(", ")">>

\* C1: after evaluate returns Ok(v), get_constant("ans") is v and a
\* following evaluate("ans()") returns v; after evaluate returns Err the
\* registry, ans included, is what it was before the call.
C1_AnsFollowsEvaluate ==
    call = "evaluate" =>
        /\ ret.kind = "Ok" =>
              /\ get_constant(variables, ANS) = Some(ret.val)
              /\ \A rnd \in RandomVals :
                    calculator_evaluate(variables, Call(ANS), rnd).ret = Ok(ret.val)
        /\ ret.kind = "Err" => variables = before

\* an evaluation has succeeded and replaced a different earlier ans
C1_Witness ==
    /\ call = "evaluate"
    /\ ret.kind = "Ok"
    /\ get_constant(before, ANS) \notin {NoneVal, Some(ret.val)}
    /\ get_constant(variables, ANS) = Some(ret.val)

\* the names the contract reserves: the builtin functions, mod, e and pi
ReservedKeywords ==
    { k \in DOMAIN NewVariables : NewVariables[k].tag = "Function" }
        \cup { <<"m","o","d">>, <<"e">>, <<"p","i">> }

\* C7: add_constant(name, v) returns false and leaves the registry unchanged
\* exactly when lowercase(name) is a reserved keyword; otherwise it returns
\* true and get_constant(name) is v afterwards, whatever was there before.
C7_AddConstant ==
    call = "add_constant" =>
        IF to_lowercase(input) \in ReservedKeywords
        THEN ret = Bool(FALSE) /\ variables = before
        ELSE ret = Bool(TRUE) /\ get_constant(variables, input) = Some(num)

\* a reserved name spelled with capitals has been refused
C7_Witness ==
    /\ call = "add_constant"
    /\ input # to_lowercase(input)
    /\ to_lowercase(input) \in ReservedKeywords
    /\ ret = Bool(FALSE)

\* C8: remove_constant on a builtin Function returns None and leaves the
\* registry as it was; on a constant it returns Some(value) and the name no
\* longer resolves; on an unknown name it returns None and changes nothing.
C8_RemoveConstant ==
    call = "remove_constant" =>
        LET name == to_lowercase(input)
        IN  IF name \notin DOMAIN before
            THEN ret = NoneVal /\ variables = before
            ELSE IF before[name].tag = "Function"
            THEN /\ ret = NoneVal
                 /\ variables = before
                 /\ argc_of(variables[name]) = argc_of(NewVariables[name])
            ELSE /\ ret = Some(before[name].val)
                 /\ variables = Remove(before, name)
                 /\ get_constant(variables, input) = NoneVal
                 /\ \A rnd \in RandomVals :
                       calculator_evaluate(variables, Call(input), rnd).ret.kind = "Err"

\* remove_constant has been called on a builtin function
C8_Witness ==
    /\ call = "remove_constant"
    /\ to_lowercase(input) \in DOMAIN before
    /\ before[to_lowercase(input)].tag = "Function"
    /\ ret = NoneVal

\* the spellings the callers use for one name
Spellings(name) == { n \in Names \cup {<<"A","N","S">>} : to_lowercase(n) = to_lowercase(name) }

\* C9: after add_constant(n, v) returns true, every spelling n' that differs
\* from n only in letter case gives get_constant(n') = v, is removed by
\* remove_constant(n'), and evaluates as n'() to v; ANS() evaluates to the
\* last successful result.
C9_CaseInsensitiveNames ==
    /\ (call = "add_constant" /\ ret = Bool(TRUE)) =>
          \A n \in Spellings(input) :
              /\ get_constant(variables, n) = Some(num)
              /\ remove_constant(variables, n).ret = Some(num)
              /\ \A rnd \in RandomVals :
                    calculator_evaluate(variables, Call(n), rnd).ret = Ok(num)
    /\ (call = "evaluate" /\ ret.kind = "Ok") =>
          \A rnd \in RandomVals :
              calculator_evaluate(variables, Call(<<"A","N","S">>), rnd).ret = Ok(ret.val)

\* ------------------------------------------------------------------------
\* Properties of the engine (specification SpecEngine)
\* ------------------------------------------------------------------------
\* the token sequences the Scanner of src/math/src/token.rs can produce: it
\* has no state that yields the operator Modulo
LexerProducible(ts) == \A i \in DOMAIN ts : ts[i] # Operator("Modulo")

\* C2: for every token sequence the lexer can produce, execute returns Ok or
\* Err and never panics.
C2_ExecuteNeverPanics ==
    (call = "execute" /\ LexerProducible(tokens)) => ret.kind # "Panic"

\* the precedence the contract gives: + - below * / below ^ mod
ContractPrecedence(op) ==
    CASE op \in {"Plus", "Minus"} -> 0
      [] op \in {"Multiply", "Divide"} -> 1
      [] op \in {"Power", "Modulo"} -> 2

\* the last operator of lowest precedence: where a left-associative chain splits
SplitAt(ops) ==
    CHOOSE p \in DOMAIN ops :
        \A q \in DOMAIN ops :
            /\ ContractPrecedence(ops[p]) <= ContractPrecedence(ops[q])
            /\ q > p => ContractPrecedence(ops[p]) < ContractPrecedence(ops[q])

\* the value of the chain nums[1] ops[1] nums[2] ... by the contract
RECURSIVE ChainValue(_, _)
ChainValue(nums, ops) ==
    IF ops = <<>> THEN Ok(nums[1])
    ELSE LET p == SplitAt(ops)
             l == ChainValue(SubSeq(nums, 1, p), SubSeq(ops, 1, p - 1))
             r == ChainValue(SubSeq(nums, p + 1, Len(nums)), SubSeq(ops, p + 1, Len(ops)))
         IN  IF ~IsOk(l) THEN l
             ELSE IF ~IsOk(r) THEN r
             ELSE evaluate_expr(l.val, r.val, ops[p])

IsChain(body) ==
    /\ Len(body) >= 3
    /\ Len(body) % 2 = 1
    /\ \A i \in DOMAIN body :
          body[i].t = (IF i % 2 = 1 THEN "Number" ELSE "Operator")

Body(ts, c) == SubSeq(ts, Len(c.pre) + 1, Len(ts) - Len(c.post))

InContext(ts, c) ==
    /\ Len(ts) >= Len(c.pre) + Len(c.post)
    /\ SubSeq(ts, 1, Len(c.pre)) = c.pre
    /\ SubSeq(ts, Len(ts) - Len(c.post) + 1, Len(ts)) = c.post

\* what the context makes of the value of its body
ContextValue(c, v) ==
    CASE c.name \in {"top", "paren"} -> Ok(v)
      [] c.name = "abs" -> abs(v)
      [] c.name = "pow1" -> power(v, FromInt(2))
      [] c.name = "pow2" -> power(FromInt(2), v)

ChainExpected(ts, c) ==
    LET body == Body(ts, c)
        nums == [i \in 1..((Len(body) + 1) \div 2) |-> body[2 * i - 1].val]
        ops == [i \in 1..(Len(body) \div 2) |-> body[2 * i].op]
        v == ChainValue(nums, ops)
    IN  IF IsOk(v) THEN ContextValue(c, v.val) ELSE v

\* C3: a chain a op1 b op2 c ... evaluates with + - below * / below ^ mod,
\* every operator left-associative, at top level, inside parentheses and
\* inside function arguments.
C3_PrecedenceLeftAssoc ==
    call = "execute" =>
        \A c \in Contexts :
            (InContext(tokens, c) /\ IsChain(Body(tokens, c))) =>
                LET expected == ChainExpected(tokens, c)
                IN  /\ expected.kind = "Ok" => ret = expected
                    /\ expected.kind = "Err" => ret.kind = "Err"

\* 2^3^3 has been evaluated as (2^3)^3
C3_Witness ==
    /\ call = "execute"
    /\ tokens = <<N2, Operator("Power"), N3, Operator("Power"), N3>>
    /\ ret = Ok(FromInt(512))

Signed(s, v) == IF s = "Minus" THEN Ratio(-v.n, v.d) ELSE v

\* C4: a sign that directly follows a binary operator applies to the operand
\* after it, be it a number, a parenthesised group or a call, and binds
\* tighter than the binary operator: 2 op s X is 2 op (s X).
C4_UnarySignOfOperand ==
    call = "execute" =>
        \A op \in {"Multiply", "Divide", "Power"}, s \in Signs, x \in Operands :
            tokens = <<N2, Operator(op), Operator(s)>> \o x =>
                LET v == execute(x, variables, zero)
                    expected == evaluate_expr(N2.val, Signed(s, v.val), op)
                IN  (IsOk(v) /\ expected.kind # "Untracked") => ret = expected

InsertAt(ts, i, tok) == SubSeq(ts, 1, i) \o <<tok>> \o SubSeq(ts, i + 1, Len(ts))

MulLeft(tok) ==
    tok.t \in {"Number", "FactorialSign"} \/ tok = ParenRight
MulRight(tok) ==
    tok.t \in {"Number", "Id"} \/ tok = ParenLeft

IsSign(tok) == tok.t = "Operator" /\ tok.op \in Signs

\* the tokens with every maximal run of signs from position i on replaced by
\* one sign: `-` when the run holds an odd number of `-`, else `+`
RECURSIVE FoldRunsFrom(_, _)
FoldRunsFrom(ts, i) ==
    IF i > Len(ts) THEN <<>>
    ELSE IF ~IsSign(ts[i]) THEN <<ts[i]>> \o FoldRunsFrom(ts, i + 1)
    ELSE LET stop == CHOOSE j \in (i + 1)..(Len(ts) + 1) :
                        /\ \A k \in i..(j - 1) : IsSign(ts[k])
                        /\ j <= Len(ts) => ~IsSign(ts[j])
             minuses == Cardinality({k \in i..(stop - 1) : ts[k].op = "Minus"})
         IN  <<Operator(IF minuses % 2 = 1 THEN "Minus" ELSE "Plus")>>
                \o FoldRunsFrom(ts, stop)

FoldRuns(ts) == FoldRunsFrom(ts, 1)

HasPrefix(s) == Len(s) >= 2 /\ s[1] = "0" /\ s[2] \in {"b", "o", "x"}
RadixOf(s) ==
    IF ~HasPrefix(s) THEN 10
    ELSE CASE s[2] = "b" -> 2 [] s[2] = "o" -> 8 [] s[2] = "x" -> 16
DigitsOf(s) == IF HasPrefix(s) THEN SubSeq(s, 3, Len(s)) ELSE s
Dots(s) == {i \in DOMAIN s : s[i] = "."}

\* a numeric literal: an optional prefix, digits of the radix, and at most
\* one `.` that is followed by at least one digit
IsLiteral(s) ==
    LET ds == DigitsOf(s)
    IN  /\ ds # <<>>
        /\ Cardinality(Dots(ds)) <= 1
        /\ ds[Len(ds)] # "."
        /\ \A i \in DOMAIN ds : ds[i] = "." \/ to_digit(ds[i], RadixOf(s)) >= 0

\* sum of d_i * r^i over the digits ds read as one integer in radix r
RECURSIVE DigitsValue(_, _)
DigitsValue(ds, r) ==
    IF ds = <<>> THEN 0
    ELSE DigitsValue(SubSeq(ds, 1, Len(ds) - 1), r) * r + DigitValue[ds[Len(ds)]]

RECURSIVE IntPow(_, _)
IntPow(r, m) == IF m = 0 THEN 1 ELSE r * IntPow(r, m - 1)

\* the positional value of the literal s, as a reduced ratio
PositionalValue(s) ==
    LET ds == DigitsOf(s)
        r == RadixOf(s)
        dot == IF Dots(ds) = {} THEN Len(ds) + 1 ELSE CHOOSE i \in Dots(ds) : TRUE
        int == SubSeq(ds, 1, dot - 1)
        frac == SubSeq(ds, dot + 1, Len(ds))
        scale == IntPow(r, Len(frac))
    IN  Ratio(DigitsValue(int, r) * scale + DigitsValue(frac, r), scale)

\* C10: a numeric literal lexes to one Number token whose value is the
\* positional value of its digits in its radix.
C10_LiteralValue ==
    (call = "next_token" /\ num.n = 1 /\ IsLiteral(input)) =>
        /\ ret.kind = "Token"
        /\ ret.tok = Number(PositionalValue(input))
        /\ next_token(scanner).out.kind = "End"

\* the characters the Start state has an arm for
StartChars ==
    {")", "(", "|", "+", "-", "*", "/", "^", "!", ",", " ", "."} \cup Digits \cup Uppers \cup Lowers

\* s has a character no token can hold: one the Start state has no arm
\* for, or a `.` that no decimal digit follows
HasUntokenizable(s) ==
    \E i \in DOMAIN s :
        \/ s[i] \notin StartChars
        \/ s[i] = "." /\ (i = Len(s) \/ ~IsDigit(s[i + 1]))

\* the characters of the input the scanner has not read yet
Unread(sc) == sc.buf \o sc.iter

IsSuffix(t, s) == Len(t) <= Len(s) /\ t = SubSeq(s, Len(s) - Len(t) + 1, Len(s))

\* C11: every next_token call returns Some(token), None or an error; an
\* error is UnsupportedToken and the input has an untokenizable character;
\* what is left to read is a suffix of the input; after None the scanner is
\* at rest with nothing left, so that later calls return None again.
C11_TokenSequence ==
    call = "next_token" =>
        /\ ret.kind \in {"Token", "End", "Err"}
        /\ IsSuffix(Unread(scanner), input)
        /\ ret.kind = "Err" => ret.err = "UnsupportedToken" /\ HasUntokenizable(input)
        /\ ret.kind = "End" =>
                /\ Unread(scanner) = <<>>
                /\ scanner.state = Start
                /\ next_token(scanner).out.kind = "End"

\* spaces inserted at one place
MaxSpaces == 8

RECURSIVE Spaces(_)
Spaces(k) == IF k = 0 THEN <<>> ELSE <<" ">> \o Spaces(k - 1)

\* s with k spaces inserted after its first p characters
InsertSpaces(s, p, k) == SubSeq(s, 1, p) \o Spaces(k) \o SubSeq(s, p + 1, Len(s))

\* the tokens the scan loop collects from s, and whether it ends without error
ScanResult(s) ==
    Let(scan_all(ScannerNew(s), <<>>), LAMBDA r : [tokens |-> r.tokens, ok |-> IsOk(r.out)])

\* the scanner stands before the first token, right after a token, or at the end
AtTokenBoundary ==
    \/ call = "input"
    \/ call = "next_token" /\ ret.kind \in {"Token", "End"}

\* C12: spaces inserted before the first token, between two tokens or after
\* the last token change neither the tokens scanned nor whether the scan
\* succeeds.
C12_WhitespaceSkipped ==
    AtTokenBoundary =>
        \A k \in 1..MaxSpaces :
            ScanResult(InsertSpaces(input, Len(input) - Len(Unread(scanner)), k))
                = ScanResult(input)

\* ------------------------------------------------------------------------
\* Properties of evaluate on given expressions (specification Spec)
\* ------------------------------------------------------------------------
\* C13: `7 mod 3` scans to the tokens 7, Modulo, 3 and evaluates to
\* 7.modulo(3) = 1.
C13_ModKeyword ==
    (call = "evaluate" /\ input = <<"7"," ","m","o","d"," ","3">>) =>
        /\ tokens = <<Number(FromInt(7)), Operator("Modulo"), Number(FromInt(3))>>
        /\ ret = modulo(FromInt(7), FromInt(3))
        /\ ret = Ok(one)

\* ------------------------------------------------------------------------
\* Properties of validation and evaluation (specification SpecEngine)
\* ------------------------------------------------------------------------
\* `(` opened and not closed after the first i tokens of ts
RECURSIVE Depth(_, _)
Depth(ts, i) ==
    IF i = 0 THEN 0
    ELSE Depth(ts, i - 1) + (CASE ts[i] = ParenLeft -> 1 [] ts[i] = ParenRight -> -1 [] OTHER -> 0)

\* a `)` with no `(` before it, or a `(` that is never closed
Unbalanced(ts) ==
    \/ \E i \in 1..Len(ts) : Depth(ts, i) < 0
    \/ Depth(ts, Len(ts)) # 0

\* C14: execute returns an error for every token sequence whose parentheses
\* are not balanced.
C14_UnbalancedRejected ==
    (call = "execute" /\ Unbalanced(tokens)) => ret.kind = "Err"

\* ts is one parenthesised group: `(` ... and the `)` that closes it
IsGroup(ts) ==
    /\ Len(ts) >= 2
    /\ ts[1] = ParenLeft
    /\ Depth(ts, Len(ts)) = 0
    /\ \A i \in 1..(Len(ts) - 1) : Depth(ts, i) > 0

TwoGroups(ts) ==
    \E i \in 1..Len(ts) : IsGroup(SubSeq(ts, 1, i)) /\ IsGroup(SubSeq(ts, i + 1, Len(ts)))

\* C15: execute returns an error for two adjacent parenthesised groups with
\* no operator between them.
C15_AdjacentGroupsRejected ==
    (call = "execute" /\ TwoGroups(tokens)) => ret.kind = "Err"

\* the position of the `)` that closes the `(` at position i of a balanced ts
CloseOf(ts, i) ==
    CHOOSE j \in (i + 1)..Len(ts) :
        /\ Depth(ts, j) = Depth(ts, i) - 1
        /\ \A k \in (i + 1)..(j - 1) : Depth(ts, k) >= Depth(ts, i)

\* the commas of the group opened at i that are in no nested group
TopCommas(ts, i) ==
    Cardinality({k \in (i + 1)..(CloseOf(ts, i) - 1) :
                    ts[k] = Comma /\ Depth(ts, k) = Depth(ts, i)})

\* the arity asked of the group opened at i: that of the name before it, and
\* 1 for a plain group
ArityAt(ts, i) ==
    IF i > 1 /\ ts[i - 1].t = "Id" /\ ts[i - 1].id \in DOMAIN variables
    THEN argc_of(variables[ts[i - 1].id]) ELSE 1

\* some group of the balanced ts has the wrong number of arguments, or a
\* comma stands outside every group
ArityMismatch(ts) ==
    \/ \E i \in DOMAIN ts :
            /\ ts[i] = ParenLeft
            /\ IF ArityAt(ts, i) = 0 THEN ts[i + 1] # ParenRight
               ELSE TopCommas(ts, i) # ArityAt(ts, i) - 1
    \/ \E k \in DOMAIN ts : ts[k] = Comma /\ Depth(ts, k) = 0

\* what validate_tokens refuses with another error: an operator that is last
\* or before `*`, `/`, `^`, `mod`; two numbers in a row; a name that is not
\* registered or not followed by `(`
OtherDefect(ts) ==
    \E i \in DOMAIN ts :
        \/ ts[i].t = "Operator" /\ i = Len(ts)
        \/ /\ ts[i].t = "Operator" /\ i < Len(ts) /\ ts[i + 1].t = "Operator"
           /\ ts[i + 1].op \in {"Multiply", "Divide", "Power", "Modulo"}
        \/ ts[i].t = "Number" /\ i < Len(ts) /\ ts[i + 1].t = "Number"
        \/ ts[i].t = "Id" /\ (i = Len(ts) \/ ts[i + 1] # ParenLeft \/ ts[i].id \notin DOMAIN variables)

OperandMissingAt(ts, i) ==
    /\ ts[i].t = "Operator"
    /\ \/ i = Len(ts)
       \/ ts[i + 1].t = "Operator" /\ ts[i + 1].op \in {"Multiply", "Divide", "Power", "Modulo"}

\* validate_tokens finds an error before it reaches position i: the tokens
\* before i, ended by a token that no arm looks at, are refused
ErrorBefore(ts, i) ==
    ~IsOk(validate_tokens(SubSeq(ts, 1, i - 1) \o <<FactorialSign>>, variables))

\* C17: when an operator is the last token or is followed by `*`, `/`, `^` or
\* `mod`, and validate_tokens finds no error before that operator, it returns
\* MissingOperand, and so does execute.
C17_MissingOperand ==
    call = "execute" =>
        \A i \in DOMAIN tokens :
            (OperandMissingAt(tokens, i) /\ ~ErrorBefore(tokens, i)) =>
                /\ validate_tokens(tokens, variables) = Err("MissingOperand")
                /\ ret = Err("MissingOperand")

\* `2**3` is refused with MissingOperand
C17_Witness ==
    /\ call = "execute"
    /\ tokens = <<N2, Operator("Multiply"), Operator("Multiply"), N3>>
    /\ OperandMissingAt(tokens, 2) /\ ~ErrorBefore(tokens, 2)
    /\ ret = Err("MissingOperand")

\* the value of `x + 2` after the tail tl, and x itself after no tail
AfterTail(x, tl) == IF tl = <<>> THEN Ok(x) ELSE add(x, FromInt(2))

\* C18: `b!` is the factorial of the operand b, and `a op b!` is a op (b!):
\* the factorial is taken of b alone before the pending operator is applied;
\* an error of the factorial is the error of the evaluation.
C18_PostfixFactorial ==
    call = "execute" =>
        /\ \A b \in FactOperands, tl \in FactTails :
                tokens = b.toks \o <<FactorialSign>> \o tl =>
                    Let(Try(b.fact, LAMBDA f : AfterTail(f, tl)), LAMBDA expected :
                        expected.kind \in {"Ok", "Err"} => ret = expected)
        /\ \A l \in FactLefts, op \in BinOps, b \in FactOperands, tl \in FactTails :
                tokens = l.toks \o <<Operator(op)>> \o b.toks \o <<FactorialSign>> \o tl =>
                    Let(Try(b.fact, LAMBDA f :
                        Try(evaluate_expr(l.val, f, op), LAMBDA x : AfterTail(x, tl))),
                        LAMBDA expected :
                            expected.kind \in {"Ok", "Err"} => ret = expected)

\* `2^3!` is 64
C18_Witness ==
    /\ call = "execute"
    /\ tokens = <<N2, Operator("Power"), N3, FactorialSign>>
    /\ ret = Ok(FromInt(64))

\* ------------------------------------------------------------------------
\* Properties of Number (specification SpecNumber)
\* ------------------------------------------------------------------------
\* |a| in units of radix^(-precision), rounded half up
RoundedUnits(a, r, p) == (2 * Abs(a.n) * IntPow(r, p) + a.d) \div (2 * a.d)

\* the digits of the natural number m in radix r, most significant first
RECURSIVE NatDigits(_, _)
NatDigits(m, r) ==
    IF m < r THEN <<m>> ELSE Append(NatDigits(m \div r, r), m % r)

\* the k least significant digits of m in radix r, most significant first
RECURSIVE LowDigits(_, _, _)
LowDigits(m, r, k) ==
    IF k = 0 THEN <<>> ELSE Append(LowDigits(m \div r, r, k - 1), m % r)

RECURSIVE DropTrailingZeros(_)
DropTrailingZeros(ds) ==
    IF ds # <<>> /\ ds[Len(ds)] = 0 THEN DropTrailingZeros(SubSeq(ds, 1, Len(ds) - 1)) ELSE ds

DigitChars == <<"0", "1", "2", "3", "4", "5", "6", "7", "8", "9", "A", "B", "C", "D", "E", "F">>
Chars(ds) == [i \in DOMAIN ds |-> DigitChars[ds[i] + 1]]

\* a rounded to p fractional digits of radix r, printed with no trailing zero
\* digits, no bare radix point and no sign on zero
RoundedText(a, r, p) ==
    LET m == RoundedUnits(a, r, p)
        whole == NatDigits(m \div IntPow(r, p), r)
        fract == DropTrailingZeros(LowDigits(m, r, p))
    IN  (IF a.n < 0 /\ m # 0 THEN <<"-">> ELSE <<>>)
            \o Chars(whole)
            \o (IF fract = <<>> THEN <<>> ELSE <<".">> \o Chars(fract))

\* C19: to_string(radix, precision) prints the value rounded half up on its
\* magnitude to precision fractional digits of the radix, the carry of the
\* rounding included, without trailing zeros, bare point or `-0`.
C19_RoundedHalfUp ==
    call = "to_string" => ret = RoundedText(num, radix_len(args.radix), args.precision)

\* a - m is a whole multiple of b
WholeMultiple(a, m, b) ==
    ((a.n * m.d - m.n * a.d) * b.d) % Abs(a.d * m.d * b.n) = 0

\* a + b in plain rational arithmetic
PlainSum(a, b) == Ratio(a.n * b.d + b.n * a.d, a.d * b.d)

\* C20: for b # 0, m = a.modulo(b) is 0 or has the sign of b, |m| < |b| and
\* a - m is a whole multiple of b; a.remainder(b) is 0 or has the sign of a;
\* and m is the remainder by b of the plain sum of a.remainder(b) and b.
C20_ModuloSign ==
    /\ (call = "modulo" /\ args.other # zero) =>
            /\ IsOk(ret)
            /\ ret.val.n = 0 \/ Sign(ret.val.n) = Sign(args.other.n)
            /\ Less([n |-> Abs(ret.val.n), d |-> ret.val.d],
                    [n |-> Abs(args.other.n), d |-> args.other.d])
            /\ WholeMultiple(num, ret.val, args.other)
            /\ ret = remainder(PlainSum(remainder(num, args.other).val, args.other), args.other)
    /\ (call = "remainder" /\ args.other # zero) =>
            /\ IsOk(ret)
            /\ ret.val.n = 0 \/ Sign(ret.val.n) = Sign(num.n)

\* -7 modulo 3 is 2
C20_Witness ==
    /\ call = "modulo"
    /\ num = FromInt(-7)
    /\ args.other = FromInt(3)
    /\ ret = Ok(FromInt(2))

\* ------------------------------------------------------------------------
\* C21: for integers n and k, combination(n, k) fails with
\* FactorialNegative if n < 0 or k < 0, and otherwise is the binomial
\* coefficient: 0 whenever k > n (n = 0 with k > 0 included), 1 when k = 0
\* or k = n, and n!/(k!(n-k)!) in every other case.
\* ------------------------------------------------------------------------
\* the binomial coefficient by Pascal's rule, for 0 <= n and 0 <= k
RECURSIVE Binomial(_, _)
Binomial(n, k) ==
    IF k > n THEN 0
    ELSE IF k = 0 \/ k = n THEN 1
    ELSE Binomial(n - 1, k - 1) + Binomial(n - 1, k)

C21_Combination ==
    (call = "combination" /\ ret.kind # "Untracked") =>
        ret = IF num.n < 0 \/ args.other.n < 0 THEN Err("FactorialNegative")
              ELSE Ok(FromInt(Binomial(num.n, args.other.n)))

\* ------------------------------------------------------------------------
\* C22: power with an integer exponent: x.power(0) is 1 for every x, 0
\* included; 0.power(n) is 1 for every negative integer n and never fails
\* with DivisionZero; and for x # 0 and a negative integer n, x.power(n) is
\* 1 / x.power(|n|).
\* ------------------------------------------------------------------------
\* 1 / x.power(|n|)
ReciprocalOfPower(x, n) == Try(power(x, FromInt(Abs(n))), LAMBDA p : div(one, p))

C22_IntegerPower ==
    (call = "power" /\ ret.kind # "Untracked") =>
        /\ args.other = zero => ret = Ok(one)
        /\ (num = zero /\ args.other.n < 0) => ret = Ok(one)
        /\ (num # zero /\ args.other.n < 0
              /\ ReciprocalOfPower(num, args.other.n).kind # "Untracked")
           => ret = ReciprocalOfPower(num, args.other.n)

\* ------------------------------------------------------------------------
\* C23: x.root(n) fails with ZeroNthRoot iff n = 0, and for n # 0 it fails
\* with NegativeRoot iff x < 0 and the numerator of n in lowest terms is
\* even (2, 88, 4/3, ...); for x < 0 and an odd numerator (3, 87, 5/2, ...)
\* it does not fail with NegativeRoot.
\* ------------------------------------------------------------------------
\* the integer part of a Number, towards zero
IntegerPart(a) == Sign(a.n) * (Abs(a.n) \div a.d)
IsEven(i) == Abs(i) % 2 = 0

C24_NumberLog ==
    call = "execute" =>
        \A b \in LogArgs, x \in LogArgs :
            tokens = LogCall(b, x) =>
                /\ ~Less(zero, x.val) => ret = Err("LogUndefinedNumber")
                /\ (Less(zero, x.val) /\ ~Less(zero, b.val)) => ret = Err("LogUndefinedBase")

LogZeroFive == <<IdLog, ParenLeft, N0, Comma, N5, ParenRight>>
LogFiveZero == <<IdLog, ParenLeft, N5, Comma, N0, ParenRight>>

C24_LogErrors ==
    /\ C24_NumberLog
    /\ (call = "execute" /\ tokens = LogZeroFive) => ret = Err("LogUndefinedBase")
    /\ (call = "execute" /\ tokens = LogFiveZero) => ret = Err("LogUndefinedNumber")

\* `log(-2, -5)`: number and base are both negative, the number is reported
C24_Witness ==
    /\ call = "execute"
    /\ tokens = <<IdLog, ParenLeft, Operator("Minus"), N2, Comma, Operator("Minus"), N5, ParenRight>>
    /\ ret = Err("LogUndefinedNumber")

\* C24 as stated: `log(0,5)` fails with LogUndefinedNumber
C24_LogZeroFiveNumber ==
    /\ C24_NumberLog
    /\ (call = "execute" /\ tokens = LogZeroFive) => ret = Err("LogUndefinedNumber")

\* ------------------------------------------------------------------------
\* C25: when a validated call f(e1, ..., en) closes, f is applied to exactly
\* the values of e1..en in the order written and they are replaced by the
\* one result, every operand and operator around the call being left as it
\* was: in any context the expression evaluates as it does with the value of
\* the call written in its place, and an error of f is the error of the
\* evaluation. A zero-arity constant takes no operand.
\* ------------------------------------------------------------------------
\* an argument that is a sign before `(` or before a call
SignedGroupArgument(toks) ==
    \E i \in 2..(Len(toks) - 1) :
        /\ toks[i] \in {Operator("Minus"), Operator("Plus")}
        /\ toks[i - 1] \in {ParenLeft, Comma}
        /\ toks[i + 1].t \in {"Bracket", "Id"}

CallFrameKept(ctx, c) ==
    tokens = ctx.pre \o c.toks \o ctx.post =>
        CASE c.val.kind = "Ok" ->
                ret = execute(ctx.pre \o <<Number(c.val.val)>> \o ctx.post, variables, zero)
          [] c.val.kind = "Err" -> ret = c.val
          [] OTHER -> TRUE

C25_CallFrame ==
    call = "execute" =>
        \A ctx \in FrameContexts, c \in FrameCalls : CallFrameKept(ctx, c)

\* ------------------------------------------------------------------------
\* C26: after any sequence of add_constant, remove_constant and evaluate
\* calls, every reserved builtin name (each builtin function and the
\* constants `e` and `pi`) is registered with its original definition.
\* ------------------------------------------------------------------------
ReservedKept(name) ==
    /\ name \in DOMAIN variables
    /\ variables[name] = NewVariables[name]

C26_ReservedNamesKept == \A name \in DOMAIN NewVariables : ReservedKept(name)

\* ------------------------------------------------------------------------
\* C27: next_token accepts well-formed tokens of any length: a numeric
\* literal or an identifier of k characters, after a run of spaces or none,
\* is lexed without error for every k >= 1.
\* ------------------------------------------------------------------------
\* s is one run of decimal digits or one run of letters
OneToken(s) ==
    /\ s # <<>>
    /\ \/ \A i \in DOMAIN s : IsDigit(s[i])
       \/ \A i \in DOMAIN s : s[i] \in Lowers \cup Uppers

\* s is spaces, or none, and then one token
SpacesThenToken(s) ==
    \E k \in 0..Len(s) :
        /\ \A i \in 1..k : s[i] = " "
        /\ OneToken(SubSeq(s, k + 1, Len(s)))

C27_AnyLength ==
    (call = "next_token" /\ num.n = 1 /\ SpacesThenToken(input)) => ret.kind = "Token"

\* ------------------------------------------------------------------------
\* Properties of the buttons (specification SpecButtons)
\* ------------------------------------------------------------------------
\* C28: after every sequence of button presses other than Evaluate,
\* get_display_str returns a string and get_eval_str returns Ok(string) or
\* Err(message), neither panics, and so process_button(Evaluate) does not
\* crash the application.
C28_NeverPanics ==
    /\ alive
    /\ call = "get_display_str" => ret.kind = "Ok"
    /\ call = "get_eval_str" => ret.kind \in {"Ok", "Err"}

\* C30: after any sequence of process_button calls other than Evaluate,
\* 0 <= cursor_pos <= btn_stack.len(); an input button is inserted at the
\* cursor and advances it by one; Delete removes the button before the
\* cursor and moves the cursor back by one, and changes nothing when the
\* cursor is at 0; MoveLeft and MoveRight leave the stack as it is and move
\* the cursor by one within the stack; Clear empties the stack and puts the
\* cursor at 0.
CursorInStack(em) == 0 <= em.cursor_pos /\ em.cursor_pos <= Len(em.btn_stack)

ButtonEffect(em, button, em2) ==
    CASE button \in InputButtons ->
            /\ em2.btn_stack = SubSeq(em.btn_stack, 1, em.cursor_pos) \o <<button>>
                    \o SubSeq(em.btn_stack, em.cursor_pos + 1, Len(em.btn_stack))
            /\ em2.cursor_pos = em.cursor_pos + 1
      [] button = BtnDelete ->
            IF em.cursor_pos = 0
            THEN em2.btn_stack = em.btn_stack /\ em2.cursor_pos = 0
            ELSE /\ Len(em2.btn_stack) = Len(em.btn_stack) - 1
                 /\ \A i \in DOMAIN em2.btn_stack :
                        em2.btn_stack[i] = em.btn_stack[IF i < em.cursor_pos THEN i ELSE i + 1]
                 /\ em2.cursor_pos = em.cursor_pos - 1
      [] button = BtnMoveLeft ->
            /\ em2.btn_stack = em.btn_stack
            /\ em2.cursor_pos = IF em.cursor_pos = 0 THEN 0 ELSE em.cursor_pos - 1
      [] button = BtnMoveRight ->
            /\ em2.btn_stack = em.btn_stack
            /\ em2.cursor_pos = IF em.cursor_pos = Len(em.btn_stack) THEN em.cursor_pos
                                 ELSE em.cursor_pos + 1
      [] button = BtnClear -> em2.btn_stack = <<>> /\ em2.cursor_pos = 0
      [] OTHER -> TRUE

C30_StepEffect ==
    /\ CursorInStack(expr_man')
    /\ (call' = "process_button" /\ args'.button # BtnEvaluate) =>
            ButtonEffect(expr_man, args'.button, expr_man')

C30_CursorAndStack == [][C30_StepEffect]_vars

\* the third press is a Delete that left one button before the cursor: it
\* removed the second of two buttons
C30_Witness ==
    /\ call = "process_button"
    /\ args.button = BtnDelete
    /\ num.n = 3
    /\ expr_man.cursor_pos = 1
    /\ Len(expr_man.btn_stack) = 1

\* ------------------------------------------------------------------------
\* Properties of the list of constants (specification SpecConstants)
\* ------------------------------------------------------------------------
\* the registry entry a key names
EntryOf(key) == to_lowercase(key)

\* C29: after any sequence of additions through the form and of removals of
\* a row, keys and values have the same length, no two keys name the same
\* registry entry, and every key names a constant of the registry that is
\* not a builtin.
C29_ListInSync ==
    /\ Len(constants.keys) = Len(constants.values)
    /\ \A i, j \in DOMAIN constants.keys :
            i # j => EntryOf(constants.keys[i]) # EntryOf(constants.keys[j])
    /\ \A i \in DOMAIN constants.keys :
            /\ EntryOf(constants.keys[i]) \in DOMAIN variables
            /\ variables[EntryOf(constants.keys[i])].tag = "Constant"
            /\ EntryOf(constants.keys[i]) \notin builtin_keywords

====
